---- MODULE Spec2Model ----
(***************************************************************************)
(* State-machine model of the OCR / RAG service of this repository:        *)
(*   - the batch extraction pipeline of UniversalOCRAgent                  *)
(*     (src/backend/ocr_agent.py): page segmentation, the worker pool,     *)
(*     retry, page reconciliation and the merge of the batch results;      *)
(*   - the question-answering handler ask_question (src/backend/api.py);   *)
(*   - the upload handler and the transaction of save_document;            *)
(*   - the embedding backfill (src/backend/update_embeddings.py).          *)
(* Python dicts are records (functions from keys), a missing key is a key  *)
(* outside DOMAIN, None is the record NoneVal.                             *)
(***************************************************************************)
EXTENDS Integers, Sequences, FiniteSets, TLC

VARIABLES
    \* ---- UniversalOCRAgent._process -------------------------------------
    pc,                 \* position of _process: init, single, collect, unwind, done
    total_pages,        \* _get_pdf_page_count(pdf_data)
    count_raised,       \* whether fitz raised in _get_pdf_page_count
    max_workers,        \* self.max_workers
    batch_size,         \* _get_batch_size(total_pages)
    batch_tasks,        \* the list batch_tasks
    task,               \* per batch task: worker-side position of _process_batch_with_retry
    future,             \* per batch task: the future of executor.submit
    collected,          \* batch numbers as_completed has already yielded
    in_page_order,      \* batch_results has been appended to in page order so far
    batch_results,      \* the list batch_results
    successful_batches,
    failed_batches,
    attempts,           \* per page range: external calls made and failed so far
    doc,                \* the DocumentResult returned by _process
    \* ---- _force_fix_page_numbers applied to one extractor output --------
    fix_pc,             \* raw, fixed or raised
    fix_range,          \* the batch the output belongs to
    fix_raw,            \* the dict returned by _parse_response
    fix_result,         \* the same dict after _force_fix_page_numbers
    \* ---- ask_question ----------------------------------------------------
    ask_pc,             \* position of ask_question: start, embed, search, generate, done
    question,           \* request.question
    top_k,              \* request.top_k
    document_ids,       \* request.document_ids
    embedded,           \* ids of the blocks whose embedding column is not null
    matched_key_values,
    use_block_search,
    question_embedding,
    relevant_blocks,
    expanded_blocks,
    context_parts,
    calls,              \* how often each collaborator was called in this request
    query_log,          \* the db.log_query calls of this request
    response,           \* what the handler returns or raises
    \* ---- ocr_upload and Database.save_document ---------------------------
    upload_pc,          \* position of ocr_upload: processed, saving, respond, done
    save_to_db,         \* the query parameter save_to_db
    result_dict,        \* result.to_dict() of the ingestion
    pending_rows,       \* rows inserted in the open transaction of save_document
    stored_rows,        \* rows committed to the store
    save_calls,         \* calls of db.save_document
    discarded_rows,     \* number of rows the rollback of save_document discarded
    saved_id,           \* the document_id save_document returned, None before
    \* ---- the embedding backfill ------------------------------------------
    backfill,           \* the backfill run: position, rows still to embed, the
                        \* blocks updated in its open transaction
    \* ---- _process_batch_with_retry, statement by statement ---------------
    lock_run            \* the threads of the pool and the holder of _log_lock

ingestVars == <<pc, total_pages, count_raised, max_workers, batch_size, batch_tasks, task, future,
                collected, in_page_order, batch_results, successful_batches,
                failed_batches, attempts, doc>>
fixVars == <<fix_pc, fix_range, fix_raw, fix_result>>
askVars == <<ask_pc, question, top_k, document_ids, embedded, matched_key_values,
             use_block_search, question_embedding, relevant_blocks, expanded_blocks,
             context_parts, calls, query_log, response>>
uploadVars == <<upload_pc, save_to_db, result_dict, pending_rows, stored_rows,
                save_calls, discarded_rows, saved_id>>
backfillVars == <<backfill>>
lockVars == <<lock_run>>
vars == <<ingestVars, fixVars, askVars, uploadVars, backfillVars, lockVars>>

\* ------------------------------------------------------------------ bounds

\* Largest page count of a document whose whole ingestion is explored.
MaxPages == 7
\* Largest page count for which segmentation alone is explored.
MaxSegPages == 110
\* Largest worker-pool size explored (the constructor's max_workers).
MaxWorkers == 2
\* Records of one kind in one non-empty extractor output.
MaxItems == 2
\* Backfill runs that race with one question.
MaxBackfills == 1
\* Page counts of the long documents whose merge alone is explored: with three
\* pages a batch, from ten batches to twelve.
MinLongPages == 30
MaxLongPages == 34

\* ----------------------------------------------------------------- helpers

Min(a, b) == IF a <= b THEN a ELSE b

\* dict.get(k, d)
Get(r, k, d) == IF k \in DOMAIN r THEN r[k] ELSE d

\* Python's None
NoneVal == [none |-> TRUE]

Range(s) == {s[i] : i \in DOMAIN s}

\* ------------------------------------------------------------ segmentation

\* A variant of _get_batch_size with batches of 5 pages.
GetBatchSizeFive(n) == IF n <= 3 THEN n ELSE 5
\* _get_batch_size of the service's agent
GetBatchSize(n) == IF n <= 3 THEN n ELSE 3

\* _get_batch_size of the stand-alone agent src/ocr_agent.py
LegacyGetBatchSize(n) ==
    IF n <= 10 THEN n
    ELSE IF n <= 30 THEN 5
    ELSE IF n <= 100 THEN 8
    ELSE 10

\* A variant of the batch end without the clamp to total_pages.
BatchEndUnclamped(start, bsize, n) == start + bsize - 1
\* end = min(start + batch_size - 1, total_pages)
BatchEnd(start, bsize, n) == Min(start + bsize - 1, n)

\* for start in range(1, total_pages + 1, batch_size): ... batch_tasks.append(...)
RECURSIVE BatchTasksFrom(_, _, _, _)
BatchTasksFrom(start, num, bsize, n) ==
    IF start > n THEN <<>>
    ELSE <<[batch_num |-> num, start_page |-> start, end_page |-> BatchEnd(start, bsize, n)]>>
         \o BatchTasksFrom(start + bsize, num + 1, bsize, n)

BatchTasks(n, bsize) == BatchTasksFrom(1, 1, bsize, n)

\* if batch_size >= total_pages: the whole document is one _process_batch call
SinglePath(n, bsize) == bsize >= n

\* The page ranges _process hands to _process_batch for a document of n pages.
PageRanges(n, bsize) ==
    IF SinglePath(n, bsize)
    THEN <<[batch_num |-> 1, start_page |-> 1, end_page |-> n]>>
    ELSE BatchTasks(n, bsize)

\* --------------------------------------------------------- page values
(* A page value as json.loads can return it, tagged by its Python type:     *)
(*   int    an integer v                                                    *)
(*   float  a finite float, v its value in tenths (25 is 2.5)               *)
(*   str    a string that is the integer literal v ("3")                    *)
(*   text   any other string ("abc", "2.5", "")                             *)
(*   none   None, a list or a dict                                          *)
(*   nan    float('nan');  inf  float('inf') (json accepts NaN, Infinity)   *)
IntVal(n) == [k |-> "int", v |-> n]
FloatVal(tenths) == [k |-> "float", v |-> tenths]
StrVal(n) == [k |-> "str", v |-> n]
TextVal == [k |-> "text", v |-> 0]
NonNumeric == [k |-> "none", v |-> 0]
NanVal == [k |-> "nan", v |-> 0]
InfVal == [k |-> "inf", v |-> 0]

\* int(x) of a float truncates toward zero
Trunc(tenths) == IF tenths >= 0 THEN tenths \div 10 ELSE -((-tenths) \div 10)

\* isinstance(page_value, int) / int(page_value): the integer, or the exception
IntConv(pv) ==
    CASE pv.k = "int"   -> [exc |-> "", v |-> pv.v]
      [] pv.k = "float" -> [exc |-> "", v |-> Trunc(pv.v)]
      [] pv.k = "str"   -> [exc |-> "", v |-> pv.v]
      [] pv.k = "text"  -> [exc |-> "ValueError", v |-> 0]
      [] pv.k = "nan"   -> [exc |-> "ValueError", v |-> 0]
      [] pv.k = "none"  -> [exc |-> "TypeError", v |-> 0]
      [] OTHER          -> [exc |-> "OverflowError", v |-> 0]

\* The value fix_page raises instead of returning (except (ValueError, TypeError) only).
Raised == [k |-> "raise", v |-> 0]

\* A variant of fix_page that keeps an out-of-range page as it is.
FixPageKeepInvalid(page_value, start_page, end_page) ==
    LET c == IntConv(page_value)
        bsize == end_page - start_page + 1
    IN  IF c.exc \in {"ValueError", "TypeError"} THEN IntVal(start_page)
        ELSE IF c.exc # "" THEN Raised
        ELSE IF 1 <= c.v /\ c.v <= bsize THEN IntVal(c.v + start_page - 1)
        ELSE IntVal(c.v)
\* A variant of fix_page that takes every page up to end_page for a
\* batch-relative one.
FixPageRelativeToEnd(page_value, start_page, end_page) ==
    LET c == IntConv(page_value)
    IN  IF c.exc \in {"ValueError", "TypeError"} THEN IntVal(start_page)
        ELSE IF c.exc # "" THEN Raised
        ELSE IF 1 <= c.v /\ c.v <= end_page THEN IntVal(c.v + start_page - 1)
        ELSE IntVal(start_page)
\* fix_page of _force_fix_page_numbers, for the batch [start_page, end_page]
FixPage(page_value, start_page, end_page) ==
    LET c == IntConv(page_value)
        bsize == end_page - start_page + 1
    IN  IF c.exc \in {"ValueError", "TypeError"} THEN IntVal(start_page)
        ELSE IF c.exc # "" THEN Raised
        ELSE IF 1 <= c.v /\ c.v <= bsize THEN IntVal(c.v + start_page - 1)
        ELSE IF start_page <= c.v /\ c.v <= end_page THEN IntVal(c.v)
        ELSE IntVal(start_page)

\* The lists of a result whose records carry a page.
PageBearingKeys == {"blocks", "key_value_pairs", "tables", "images"}

\* for rec in result.get(key, []): if "page" in rec: rec["page"] = fix_page(rec["page"])
FixList(list, start_page, end_page) ==
    [i \in DOMAIN list |->
        IF "page" \in DOMAIN list[i]
        THEN [list[i] EXCEPT !.page = FixPage(@, start_page, end_page)]
        ELSE list[i]]

\* Whether _force_fix_page_numbers raises on this result.
FixRaises(result, start_page, end_page) ==
    \E key \in PageBearingKeys \cap DOMAIN result :
        \E i \in DOMAIN result[key] :
            /\ "page" \in DOMAIN result[key][i]
            /\ FixPage(result[key][i].page, start_page, end_page) = Raised

\* _force_fix_page_numbers (it changes the dict in place)
ForceFixPageNumbers(result, start_page, end_page) ==
    [key \in DOMAIN result |->
        IF key \in PageBearingKeys
        THEN FixList(result[key], start_page, end_page)
        ELSE result[key]]

\* The four kinds of page-bearing record of an extraction result.
RecordKinds == {"blocks", "key_value_pairs", "tables", "images"}

\* Every record of a result that carries a page, as <<key, index>> pairs.
PagedRecords(result) ==
    {kr \in UNION {{<<key, i>> : i \in DOMAIN result[key]} :
                        key \in RecordKinds \cap DOMAIN result} :
        "page" \in DOMAIN result[kr[1]][kr[2]]}

\* The page values an extractor may return for a batch: integers around the
\* batch-relative and the absolute interval, floats, strings and non-numbers.
RawPageVals(start_page, end_page) ==
    {IntVal(n) : n \in (-1)..(end_page + 2)}
    \cup {FloatVal(t) : t \in {-5, 9, 25, 10 * end_page + 9, 10 * end_page + 10}}
    \cup {StrVal(n) : n \in {0, 1, end_page}}
    \cup {TextVal, NonNumeric, NanVal, InfVal}

\* One record of the given kind, with or without a page.
RawRecord(id, pv) == [id |-> id, page |-> pv, content |-> "c"]
RawRecordNoPage(id) == [id |-> id, content |-> "c"]
RawKeyValue(pv) == [key |-> "k", value |-> "v", page |-> pv]
RawKeyValueNoPage == [key |-> "k", value |-> "v"]

\* A list of one kind in an extractor output: one record carrying pv, or one
\* record without a page.
RawLists(key, pv) ==
    IF key = "key_value_pairs"
    THEN {<<RawKeyValue(pv)>>, <<RawKeyValueNoPage>>}
    ELSE {<<RawRecord("x1", pv)>>, <<RawRecordNoPage("x1")>>}

\* Extractor outputs for the reconciliation alone: every subset of the four
\* lists present, every list one of RawLists, all sharing the page value pv.
FixInputsFor(keys, pv) ==
    LET choice == [key \in keys |-> RawLists(key, pv)]
        picks == {f \in [keys -> UNION {choice[key] : key \in keys}] :
                     \A key \in keys : f[key] \in choice[key]}
    IN  {[key \in keys \cup {"detected_type"} |->
             IF key = "detected_type" THEN "invoice" ELSE f[key]] : f \in picks}

FixInputs(start_page, end_page) ==
    UNION {FixInputsFor(keys, pv) :
              keys \in SUBSET RecordKinds, pv \in RawPageVals(start_page, end_page)}

\* A batch of some document of at most MaxPages pages.
AllRanges == UNION {Range(PageRanges(n, GetBatchSize(n))) : n \in 1..MaxPages}

\* ------------------------------------------------------------------ merge

\* f"{n:03d}"
Pad3(n) ==
    IF n < 10 THEN "00" \o ToString(n)
    ELSE IF n < 100 THEN "0" \o ToString(n)
    ELSE ToString(n)

\* rec["id"] = id
SetId(rec, id) == [x \in DOMAIN rec \cup {"id"} |-> IF x = "id" THEN id ELSE rec[x]]

\* A variant of the renumbering whose counter starts again at 1 in every batch.
RenumberPerBatch(list, prefix, counter) ==
    [i \in DOMAIN list |-> SetId(list[i], prefix \o Pad3(i))]
\* for rec in list: rec["id"] = f"{prefix}{counter:03d}"; counter += 1
Renumber(list, prefix, counter) ==
    [i \in DOMAIN list |-> SetId(list[i], prefix \o Pad3(counter + i - 1))]

\* " | ".join(pieces)
RECURSIVE Join(_)
Join(pieces) ==
    IF Len(pieces) = 0 THEN ""
    ELSE IF Len(pieces) = 1 THEN pieces[1]
    ELSE pieces[1] \o " | " \o Join(Tail(pieces))

\* summaries[:10]
SummaryCap == 10

\* The dict merged and the counters before the loop of _merge_results.
MergeStart(n) ==
    [detected_type |-> "", language |-> "", total_pages |-> n,
     blocks |-> <<>>, key_value_pairs |-> <<>>, tables |-> <<>>,
     images_summary |-> [total_count |-> 0, items |-> <<>>],
     text_summary |-> "", summaries |-> <<>>]

\* A variant of the iteration in which every batch with a detected type or a
\* language overrides the one established before it.
MergeStepLastWins(acc, result) ==
    LET images == Get(result, "images", <<>>)
    IN  [acc EXCEPT
            !.detected_type = IF Get(result, "detected_type", "") # ""
                              THEN result.detected_type ELSE @,
            !.language = IF Get(result, "language", "") # ""
                         THEN result.language ELSE @,
            !.blocks = @ \o Renumber(Get(result, "blocks", <<>>), "block_", Len(@) + 1),
            !.key_value_pairs = @ \o Get(result, "key_value_pairs", <<>>),
            !.tables = @ \o Renumber(Get(result, "tables", <<>>), "table_", Len(@) + 1),
            !.images_summary =
                [total_count |-> @.total_count + Len(images),
                 items |-> @.items \o Renumber(images, "img_", Len(@.items) + 1)],
            !.summaries = IF Get(result, "summary", "") # ""
                          THEN Append(@, result.summary) ELSE @]
\* One iteration of "for result in results" of _merge_results. The counters
\* block_counter, table_counter and image_counter are one more than the
\* number of records appended so far.
MergeStep(acc, result) ==
    LET images == Get(result, "images", <<>>)
    IN  [acc EXCEPT
            !.detected_type = IF @ = "" /\ Get(result, "detected_type", "") # ""
                              THEN result.detected_type ELSE @,
            !.language = IF @ = "" /\ Get(result, "language", "") # ""
                         THEN result.language ELSE @,
            !.blocks = @ \o Renumber(Get(result, "blocks", <<>>), "block_", Len(@) + 1),
            !.key_value_pairs = @ \o Get(result, "key_value_pairs", <<>>),
            !.tables = @ \o Renumber(Get(result, "tables", <<>>), "table_", Len(@) + 1),
            !.images_summary =
                [total_count |-> @.total_count + Len(images),
                 items |-> @.items \o Renumber(images, "img_", Len(@.items) + 1)],
            !.summaries = IF Get(result, "summary", "") # ""
                          THEN Append(@, result.summary) ELSE @]

RECURSIVE MergeLoop(_, _)
MergeLoop(acc, results) ==
    IF results = <<>> THEN acc
    ELSE MergeLoop(MergeStep(acc, Head(results)), Tail(results))

\* A variant of the merge that joins every summary collected.
MergeResultsUncapped(results, n) ==
    LET acc == MergeLoop(MergeStart(n), results)
    IN  [acc EXCEPT !.text_summary = Join(acc.summaries)]
\* _merge_results(results, total_pages)
MergeResults(results, n) ==
    LET acc == MergeLoop(MergeStart(n), results)
    IN  [acc EXCEPT !.text_summary =
            Join(SubSeq(acc.summaries, 1, Min(SummaryCap, Len(acc.summaries))))]

\* list.sort(key=lambda x: x["start_page"]): a stable sort
RECURSIVE InsertByStartPage(_, _)
InsertByStartPage(sorted, x) ==
    IF sorted = <<>> THEN <<x>>
    ELSE IF Head(sorted).start_page <= x.start_page
         THEN <<Head(sorted)>> \o InsertByStartPage(Tail(sorted), x)
         ELSE <<x>> \o sorted

RECURSIVE SortLoop(_, _)
SortLoop(sorted, rest) ==
    IF rest = <<>> THEN sorted
    ELSE SortLoop(InsertByStartPage(sorted, Head(rest)), Tail(rest))

\* A variant that leaves batch_results in completion order.
Unsorted(batches) == batches
\* batch_results.sort(key=lambda x: x["start_page"])
SortByStartPage(batches) == SortLoop(<<>>, batches)

\* --------------------------------------------------------- DocumentResult

\* _error_result(error_msg)
ErrorResult(msg) ==
    [success |-> FALSE, total_pages |-> 0, detected_type |-> "", language |-> "",
     blocks |-> <<>>, full_text |-> "", key_value_pairs |-> <<>>, tables |-> <<>>,
     images_summary |-> NoneVal, processing_time |-> NoneVal, error |-> msg]

\* The DocumentResult of the single-call path of _process.
SingleResult(result, n) ==
    [success |-> TRUE, total_pages |-> n,
     detected_type |-> Get(result, "detected_type", "unknown"),
     language |-> Get(result, "language", "unknown"),
     blocks |-> Get(result, "blocks", <<>>),
     full_text |-> Get(result, "summary", ""),
     key_value_pairs |-> Get(result, "key_value_pairs", <<>>),
     tables |-> Get(result, "tables", <<>>),
     images_summary |->
         IF Get(result, "images", <<>>) # <<>>
         THEN [total_count |-> Len(result.images), items |-> result.images]
         ELSE NoneVal,
     processing_time |-> [batch_count |-> 1],
     error |-> ""]    \* error=None

\* The DocumentResult of the batched path of _process.
MergedResult(merged, n, total_batches, succeeded, failed, workers) ==
    [success |-> TRUE, total_pages |-> n,
     detected_type |-> Get(merged, "detected_type", "unknown"),
     language |-> Get(merged, "language", "unknown"),
     blocks |-> Get(merged, "blocks", <<>>),
     full_text |-> Get(merged, "text_summary", ""),
     key_value_pairs |-> Get(merged, "key_value_pairs", <<>>),
     tables |-> Get(merged, "tables", <<>>),
     images_summary |-> Get(merged, "images_summary", NoneVal),
     processing_time |-> [batch_count |-> total_batches,
                          successful_batches |-> succeeded,
                          failed_batches |-> failed,
                          parallel_workers |-> workers],
     error |-> ""]

\* ------------------------------------------------ the extractor (external)

\* Page values the extractor returns in the pipeline: the batch-relative
\* first page, the absolute last page, Infinity.
PipelinePageVals(start_page, end_page) == {IntVal(1), IntVal(end_page), InfVal}

\* n records of one kind, the ids as each batch numbers them (b1, b2, ...),
\* the i-th with a content of its own.
Records(prefix, n, pv) ==
    [i \in 1..n |-> [RawRecord(prefix \o ToString(i), pv)
                        EXCEPT !.content = "c" \o ToString(i)]]
RecordsNoPage(prefix, n) ==
    [i \in 1..n |-> [RawRecordNoPage(prefix \o ToString(i))
                        EXCEPT !.content = "c" \o ToString(i)]]

\* A full extractor output for the batch that starts at start_page, with a
\* detected type and a language of its own and lists of n records each; the
\* summary is empty when it has no records.
FullOutput(start_page, blocks, kvs, tables, images) ==
    [detected_type |-> "type" \o ToString(start_page),
     language |-> "lang" \o ToString(start_page),
     blocks |-> blocks, key_value_pairs |-> kvs, tables |-> tables, images |-> images,
     summary |-> IF blocks = <<>> THEN "" ELSE "pages from " \o ToString(start_page)]

\* What _parse_response can return for the batch [start_page, end_page]: the
\* empty dict, or a full output whose lists are empty or hold MaxItems records,
\* all with the same page value or all without a page.
ExtractorResults(start_page, end_page) ==
    {<<>>}
    \cup
    {FullOutput(start_page, Records("b", n, pv), [i \in 1..n |-> RawKeyValue(pv)],
                Records("t", n, pv), Records("i", n, pv)) :
        n \in {0, MaxItems}, pv \in PipelinePageVals(start_page, end_page)}
    \cup
    {FullOutput(start_page, RecordsNoPage("b", MaxItems),
                [i \in 1..MaxItems |-> RawKeyValueNoPage],
                RecordsNoPage("t", MaxItems), RecordsNoPage("i", MaxItems))}

\* The outcomes of generate_content followed by _parse_response: an exception
\* (the call failed, or the output could not be repaired), or a dict.
CallOutcomes(start_page, end_page) ==
    {[ok |-> FALSE, result |-> <<>>]}
    \cup {[ok |-> TRUE, result |-> r] : r \in ExtractorResults(start_page, end_page)}

\* _process_batch returns (rather than raises) on this outcome.
BatchReturns(out, start_page, end_page) ==
    out.ok /\ ~FixRaises(out.result, start_page, end_page)

\* -------------------------------------------------- specification: ingest

NoDoc == <<>>

IdleIngest ==
    /\ pc = "idle"
    /\ total_pages = 0
    /\ count_raised = FALSE
    /\ max_workers = 0
    /\ batch_size = 0
    /\ batch_tasks = <<>>
    /\ task = <<>>
    /\ future = <<>>
    /\ collected = {}
    /\ in_page_order = TRUE
    /\ batch_results = <<>>
    /\ successful_batches = 0
    /\ failed_batches = 0
    /\ attempts = <<>>
    /\ doc = NoDoc

\* process_bytes(pdf_data) is called on an agent built with max_workers = w,
\* for a PDF of n pages; _get_pdf_page_count returns n, or 1 from its except
\* clause when the PDF could not be opened.
InitIngest(pages, workers) ==
    /\ pc = "init"
    /\ total_pages \in pages
    /\ count_raised \in BOOLEAN
    /\ count_raised => total_pages = 1
    /\ max_workers \in workers
    /\ batch_size = 0
    /\ batch_tasks = <<>>
    /\ task = <<>>
    /\ future = <<>>
    /\ collected = {}
    /\ in_page_order = TRUE
    /\ batch_results = <<>>
    /\ successful_batches = 0
    /\ failed_batches = 0
    /\ attempts = <<>>
    /\ doc = NoDoc

Batches == DOMAIN batch_tasks

\* _process up to the submission of the batch tasks: the batch size, the
\* single-call test, the batch list, executor.submit for every task.
ProcessBegin ==
    /\ pc = "init"
    /\ batch_size' = GetBatchSize(total_pages)
    /\ IF SinglePath(total_pages, batch_size')
       THEN /\ pc' = "single"
            /\ batch_tasks' = <<>>
            /\ attempts' = <<[calls |-> 0, fails |-> 0]>>
       ELSE /\ pc' = "collect"
            /\ batch_tasks' = BatchTasks(total_pages, batch_size')
            /\ attempts' = [b \in DOMAIN batch_tasks' |-> [calls |-> 0, fails |-> 0]]
    /\ task' = [b \in DOMAIN batch_tasks' |-> [st |-> "queued", attempt |-> 0]]
    /\ future' = [b \in DOMAIN batch_tasks' |-> [state |-> "pending", value |-> <<>>]]
    /\ UNCHANGED <<total_pages, count_raised, max_workers, collected, in_page_order, batch_results,
                   successful_batches, failed_batches, doc>>
    /\ UNCHANGED <<fixVars, askVars, uploadVars, backfillVars, lockVars>>

\* The single-call path: result = self._process_batch(pdf_data, 1, total_pages),
\* an exception caught by the except clause of _process.
SingleBatch ==
    /\ pc = "single"
    /\ \E out \in CallOutcomes(1, total_pages) :
        /\ attempts' = [attempts EXCEPT ![1] =
               [calls |-> @.calls + 1,
                fails |-> @.fails + IF BatchReturns(out, 1, total_pages) THEN 0 ELSE 1]]
        /\ doc' = IF BatchReturns(out, 1, total_pages)
                  THEN SingleResult(ForceFixPageNumbers(out.result, 1, total_pages),
                                    total_pages)
                  ELSE ErrorResult("batch raised")
    /\ pc' = "done"
    /\ UNCHANGED <<total_pages, count_raised, max_workers, batch_size, batch_tasks, task, future,
                   collected, in_page_order, batch_results, successful_batches,
                   failed_batches>>
    /\ UNCHANGED <<fixVars, askVars, uploadVars, backfillVars, lockVars>>

\* The tasks a worker thread is executing.
Running == {b \in Batches : task[b].st = "running"}

\* A variant of the pool that starts every queued task at once.
WorkerAlwaysFree == TRUE
\* ThreadPoolExecutor(max_workers=self.max_workers): a queued task starts only
\* on a free worker.
WorkerFree == Cardinality(Running) < max_workers

\* A worker takes the next task of the queue and runs _process_batch_with_retry
\* up to the first external call: _split_pdf (outside the try), the start log.
TaskStart(b) ==
    /\ pc \in {"collect", "unwind"}
    /\ task[b].st = "queued"
    /\ \A c \in Batches : c < b => task[c].st # "queued"
    /\ WorkerFree
    /\ \E split_ok \in BOOLEAN :
        IF split_ok
        THEN /\ task' = [task EXCEPT ![b].st = "running"]
             /\ future' = future
        ELSE /\ task' = [task EXCEPT ![b].st = "finished"]
             /\ future' = [future EXCEPT ![b] = [state |-> "raised", value |-> <<>>]]
    /\ UNCHANGED <<pc, total_pages, count_raised, max_workers, batch_size, batch_tasks, collected,
                   in_page_order, batch_results, successful_batches, failed_batches,
                   attempts, doc>>
    /\ UNCHANGED <<fixVars, askVars, uploadVars, backfillVars, lockVars>>

\* The dict _process_batch_with_retry returns.
BatchSuccess(t, result) ==
    [success |-> TRUE, batch_num |-> t.batch_num, start_page |-> t.start_page,
     end_page |-> t.end_page, result |-> result]
BatchFailure(t) ==
    [success |-> FALSE, batch_num |-> t.batch_num, start_page |-> t.start_page,
     end_page |-> t.end_page, result |-> <<>>]

\* for attempt in range(2): the attempts a task may make
RetryLimit == 2

\* One iteration of the retry loop: self._process_batch(batch_pdf, start_page,
\* end_page) returns, or raises and the except clause retries or gives up.
TaskAttempt(b) ==
    /\ pc \in {"collect", "unwind"}
    /\ task[b].st = "running"
    /\ LET t == batch_tasks[b] IN
       \E out \in CallOutcomes(t.start_page, t.end_page) :
          LET ok == BatchReturns(out, t.start_page, t.end_page) IN
          /\ attempts' = [attempts EXCEPT ![b] =
                 [calls |-> @.calls + 1, fails |-> @.fails + IF ok THEN 0 ELSE 1]]
          /\ IF ok
             THEN /\ task' = [task EXCEPT ![b].st = "finished"]
                  /\ future' = [future EXCEPT ![b] =
                        [state |-> "returned",
                         value |-> BatchSuccess(t, ForceFixPageNumbers(out.result,
                                                     t.start_page, t.end_page))]]
             ELSE IF task[b].attempt = RetryLimit - 1
             THEN /\ task' = [task EXCEPT ![b].st = "finished"]
                  /\ future' = [future EXCEPT ![b] =
                        [state |-> "returned", value |-> BatchFailure(t)]]
             ELSE /\ task' = [task EXCEPT ![b].attempt = @ + 1]
                  /\ future' = future
    /\ UNCHANGED <<pc, total_pages, count_raised, max_workers, batch_size, batch_tasks, collected,
                   in_page_order, batch_results, successful_batches, failed_batches,
                   doc>>
    /\ UNCHANGED <<fixVars, askVars, uploadVars, backfillVars, lockVars>>

\* One iteration of "for future in as_completed(future_to_batch)":
\* future.result() returns the batch's dict or re-raises the task's exception.
Collect(b) ==
    /\ pc = "collect"
    /\ b \notin collected
    /\ future[b].state # "pending"
    /\ collected' = collected \cup {b}
    /\ IF future[b].state = "raised"
       THEN /\ pc' = "unwind"
            /\ UNCHANGED <<batch_results, successful_batches, failed_batches,
                           in_page_order>>
       ELSE IF future[b].value.success
       THEN /\ pc' = pc
            /\ batch_results' = Append(batch_results, future[b].value)
            /\ successful_batches' = successful_batches + 1
            /\ failed_batches' = failed_batches
            /\ in_page_order' =
                  (in_page_order /\ \A i \in DOMAIN batch_results :
                       batch_results[i].start_page < future[b].value.start_page)
       ELSE /\ pc' = pc
            /\ batch_results' = batch_results
            /\ successful_batches' = successful_batches
            /\ failed_batches' = failed_batches + 1
            /\ in_page_order' = in_page_order
    /\ UNCHANGED <<total_pages, count_raised, max_workers, batch_size, batch_tasks, task, future,
                   attempts, doc>>
    /\ UNCHANGED <<fixVars, askVars, uploadVars, backfillVars, lockVars>>

\* The exception of a task leaves the with block, whose exit waits for every
\* task (shutdown(wait=True)); the except clause of _process returns the error.
Unwind ==
    /\ pc = "unwind"
    /\ \A b \in Batches : task[b].st = "finished"
    /\ doc' = ErrorResult("task raised")
    /\ pc' = "done"
    /\ UNCHANGED <<total_pages, count_raised, max_workers, batch_size, batch_tasks, task, future,
                   collected, in_page_order, batch_results, successful_batches,
                   failed_batches, attempts>>
    /\ UNCHANGED <<fixVars, askVars, uploadVars, backfillVars, lockVars>>

\* A variant of the loop's end: it is left as soon as one future was yielded.
FirstCollected == collected # {}
\* "for future in as_completed(future_to_batch)" ends when every future has
\* been yielded.
AllCollected == collected = Batches

\* After the loop: the all-failed test, the sort, the merge, the result.
Finish ==
    /\ pc = "collect"
    /\ AllCollected
    /\ IF batch_results = <<>>
       THEN /\ doc' = ErrorResult("all batches failed")
            /\ batch_results' = batch_results
       ELSE /\ batch_results' = SortByStartPage(batch_results)
            /\ doc' = MergedResult(
                        MergeResults([i \in DOMAIN batch_results' |->
                                         batch_results'[i].result], total_pages),
                        total_pages, Len(batch_tasks), successful_batches,
                        failed_batches, max_workers)
    /\ pc' = "done"
    /\ UNCHANGED <<total_pages, count_raised, max_workers, batch_size, batch_tasks, task, future,
                   collected, in_page_order, successful_batches, failed_batches,
                   attempts>>
    /\ UNCHANGED <<fixVars, askVars, uploadVars, backfillVars, lockVars>>

\* ------------------------------------------- specification: reconciliation

IdleFix ==
    /\ fix_pc = "idle"
    /\ fix_range = [batch_num |-> 0, start_page |-> 0, end_page |-> 0]
    /\ fix_raw = <<>>
    /\ fix_result = <<>>

\* result = self._parse_response(response.text) for some batch of some document
InitFix ==
    /\ fix_pc = "raw"
    /\ fix_range \in AllRanges
    /\ fix_raw \in FixInputs(fix_range.start_page, fix_range.end_page)
    /\ fix_result = fix_raw

\* self._force_fix_page_numbers(result, start_page, end_page)
ForceFix ==
    /\ fix_pc = "raw"
    /\ IF FixRaises(fix_raw, fix_range.start_page, fix_range.end_page)
       THEN /\ fix_pc' = "raised"
            /\ fix_result' = fix_result
       ELSE /\ fix_pc' = "fixed"
            /\ fix_result' = ForceFixPageNumbers(fix_raw, fix_range.start_page,
                                                 fix_range.end_page)
    /\ UNCHANGED <<fix_range, fix_raw>>
    /\ UNCHANGED <<ingestVars, askVars, uploadVars, backfillVars, lockVars>>

\* ------------------------------------------------- question answering: text

\* A text is a sequence of characters, each character one string; a CJK
\* character is written by its romanisation ("xue" is one character).

\* str.lower() on one character.
Lower(c) == CASE c = "E" -> "e" [] c = "S" -> "s" [] OTHER -> c
\* str.lower()
LowerText(t) == [i \in DOMAIN t |-> Lower(t[i])]
\* sub in t
Contains(t, sub) ==
    \E i \in 0..(Len(t) - Len(sub)) : SubSeq(t, i + 1, i + Len(sub)) = sub
\* not text or len(text.strip()) == 0
IsBlank(t) == \A i \in DOMAIN t : t[i] = " "

\* stop_words
StopWords ==
    {<<"shi">>, <<"shen", "me">>, <<"you">>, <<"na", "xie">>, <<"ma">>, <<"ne">>,
     <<"de">>, <<"le">>, <<"zai">>, <<"zhe">>, <<"nei">>, <<"qing">>, <<"wen">>,
     <<"gao", "su">>, <<"wo">>, <<"ni">>, <<"ta">>, <<"ta2">>, <<"ta3">>, <<"men">>}
\* common_phrases (four entries of the curated list)
CommonPhrases ==
    {<<"xue", "li">>, <<"e", "m", "a", "i", "l">>, <<"dian", "hua">>,
     <<"S", "k", "i", "l", "l", "s">>}
\* keywords = [w for w in question if len(w) >= 2 and w not in stop_words]:
\* iterating a str yields its characters, each a str of length 1.
TokenKeywords(q) ==
    {w \in {<<q[i]>> : i \in DOMAIN q} : Len(w) >= 2 /\ w \notin StopWords}
\* for phrase in common_phrases: if phrase.lower() in question.lower()
KeywordPhrases(q) == {p \in CommonPhrases : Contains(LowerText(q), LowerText(p))}
\* all_keywords = list(set(keywords + keyword_phrases))
AllKeywords(q) == TokenKeywords(q) \cup KeywordPhrases(q)

\* ------------------------------------------------ question answering: store

\* The rows of the tables documents, key_values and blocks. Ids are UUIDs in
\* the store; the numbers stand for them in their string order.
DocIds == {1, 2}
Documents ==
    [d \in DocIds |-> IF d = 1 THEN [filename |-> "a.pdf", summary |-> "s1"]
                               ELSE [filename |-> "b.pdf", summary |-> ""]]
KeyValueTable ==
    {[id |-> 1, document_id |-> 1, key |-> <<"xue", "li">>,
      value |-> <<"shuo", "shi">>, page |-> 1],
     [id |-> 2, document_id |-> 1, key |-> <<"E", "m", "a", "i", "l">>,
      value |-> <<"a", "@", "b">>, page |-> 3],
     [id |-> 3, document_id |-> 2, key |-> <<"zui", "gao", "xue", "li">>,
      value |-> <<"xue", "shi">>, page |-> 2],
     [id |-> 4, document_id |-> 2, key |-> <<"dian", "hua">>,
      value |-> <<"0", "9">>, page |-> 5]}
\* content is the text of a block and its length in characters.
BlockTable ==
    {[id |-> 1, document_id |-> 1, page |-> 1, block_type |-> "header",
      content |-> [text |-> "c1", len |-> 2]],
     [id |-> 2, document_id |-> 1, page |-> 2, block_type |-> "paragraph",
      content |-> [text |-> "c2", len |-> 150]],
     [id |-> 3, document_id |-> 1, page |-> 5, block_type |-> "paragraph",
      content |-> [text |-> "", len |-> 0]],
     [id |-> 4, document_id |-> 2, page |-> 1, block_type |-> "paragraph",
      content |-> [text |-> "c4", len |-> 2]],
     [id |-> 5, document_id |-> 1, page |-> 4, block_type |-> "paragraph",
      content |-> [text |-> "c5", len |-> 2]]}
BlockIds == {b.id : b \in BlockTable}

\* The rows of S as a list, in ascending order of key (a function on S).
RECURSIVE SortedSeq(_, _)
SortedSeq(S, key) ==
    IF S = {} THEN <<>>
    ELSE LET m == CHOOSE r \in S : \A o \in S : key[r] <= key[o]
         IN  <<m>> \o SortedSeq(S \ {m}, key)

\* A variant of the scope test that lets every row pass.
InAnyScope(row, ids) == TRUE
\* if document_ids and len(document_ids) > 0: ... document_id = ANY(%s::uuid[])
InScope(row, ids) == Len(ids) = 0 \/ row.document_id \in Range(ids)
\* column ILIKE '%keyword%'
ILike(text, keyword) == Contains(LowerText(text), LowerText(keyword))

\* Database.search_key_values(keywords, document_ids); connected is the
\* outcome of ensure_connection and of the query.
SearchKeyValues(keywords, ids, connected) ==
    IF ~connected \/ keywords = {} THEN <<>>
    ELSE LET rows == {[id |-> kv.id, document_id |-> kv.document_id, key |-> kv.key,
                       value |-> kv.value, page |-> kv.page,
                       filename |-> Documents[kv.document_id].filename] : kv \in
                         {r \in KeyValueTable :
                             /\ InScope(r, ids)
                             /\ \E k \in keywords : ILike(r.key, k) \/ ILike(r.value, k)}}
         IN  SortedSeq(rows, [r \in rows |-> r.page * 100 + r.id])

\* Database.get_blocks_by_page_range(document_id, start_page, end_page)
GetBlocksByPageRange(document_id, start_page, end_page, connected) ==
    IF ~connected THEN <<>>
    ELSE LET rows == {[id |-> b.id, document_id |-> b.document_id,
                       block_type |-> b.block_type, page |-> b.page,
                       content |-> b.content,
                       filename |-> Documents[b.document_id].filename] :
                         b \in {r \in BlockTable :
                                   /\ r.document_id = document_id
                                   /\ r.page >= start_page
                                   /\ r.page <= end_page}}
         IN  SortedSeq(rows, [r \in rows |-> r.page * 100 + r.id])

\* The similarity column of search_blocks in thousandths: header and
\* section_title blocks are weighted by 1.2.
Similarity(block_type, base) ==
    IF block_type \in {"header", "section_title"} THEN (base * 12) \div 10 ELSE base
\* The first n elements of a list (LIMIT n).
Take(s, n) == SubSeq(s, 1, Min(n, Len(s)))

\* Database.search_blocks(query_embedding, limit, document_ids); base gives
\* the base similarity of each block to the query, with_embedding the blocks
\* whose embedding column is not null.
SearchBlocks(limit, ids, base, with_embedding, connected) ==
    IF ~connected THEN <<>>
    ELSE LET rows == {[id |-> b.id, document_id |-> b.document_id,
                       block_type |-> b.block_type, page |-> b.page,
                       content |-> b.content,
                       filename |-> Documents[b.document_id].filename,
                       similarity |-> Similarity(b.block_type, base[b.id])] :
                         b \in {r \in BlockTable :
                                   r.id \in with_embedding /\ InScope(r, ids)}}
         IN  Take(SortedSeq(rows, [r \in rows |-> r.id - r.similarity * 100]), limit)

\* EmbeddingService.get_embedding(text): None for a blank text or when the
\* embedding model raises, a vector otherwise.
NoEmbedding == "none"
GetEmbedding(text) == IF IsBlank(text) THEN {NoEmbedding} ELSE {NoEmbedding, "vector"}

\* ---------------------------------------------- question answering: handler

\* top_k: int = 10
DefaultTopK == 10
\* len(b["content"]) > 100
PreviewLen == 100

\* A variant of the threshold: one keyword match is sufficient.
KeywordTierSufficientAtOne(kvs) == Len(kvs) >= 1
\* if matched_key_values and len(matched_key_values) >= 2
KeywordTierSufficient(kvs) == Len(kvs) >= 2

\* The "[key facts]" part of the context.
KeyFacts(kvs) ==
    [kind |-> "key_values",
     facts |-> [i \in DOMAIN kvs |->
                   [key |-> kvs[i].key, value |-> kvs[i].value, page |-> kvs[i].page]]]

\* The concatenation of the lists f[d] for d in S, in ascending order of d.
RECURSIVE ConcatOver(_, _)
ConcatOver(S, f) ==
    IF S = {} THEN <<>>
    ELSE LET d == CHOOSE x \in S : \A y \in S : x <= y
         IN  f[d] \o ConcatOver(S \ {d}, f)

MaxOf(S) == CHOOSE x \in S : \A y \in S : y <= x
MinOf(S) == CHOOSE x \in S : \A y \in S : x <= y

\* The supplementary blocks of the keyword path: for each document of a match,
\* the pages from the smallest to the largest matched page plus one.
KvExpansion(kvs, connected) ==
    LET kv_pages == {kvs[i].page : i \in {j \in DOMAIN kvs : kvs[j].page # 0}}
        kv_doc_ids == {kvs[i].document_id : i \in DOMAIN kvs}
    IN  IF kv_pages = {} THEN <<>>
        ELSE ConcatOver(kv_doc_ids,
                 [d \in kv_doc_ids |->
                     GetBlocksByPageRange(d, MinOf(kv_pages), MaxOf(kv_pages) + 1,
                                          connected[d])])

\* The list without the elements whose id already occurred.
RECURSIVE Dedupe(_, _)
Dedupe(list, seen_block_ids) ==
    IF list = <<>> THEN <<>>
    ELSE IF Head(list).id \in seen_block_ids
         THEN Dedupe(Tail(list), seen_block_ids)
         ELSE <<Head(list)>> \o Dedupe(Tail(list), seen_block_ids \cup {Head(list).id})

\* The expansion of the vector hits: per document the pages from the smallest
\* to the largest page of {p, p + 1, p + 2 : p the page of a hit}.
VectorExpansion(hits, connected) ==
    LET docs == {hits[i].document_id : i \in DOMAIN hits}
        doc_page_ranges ==
            [d \in docs |->
                UNION {hits[i].page .. (hits[i].page + 2) :
                          i \in {j \in DOMAIN hits : hits[j].document_id = d}}]
    IN  Dedupe(ConcatOver(docs,
                   [d \in docs |->
                       GetBlocksByPageRange(d, MinOf(doc_page_ranges[d]),
                                            MaxOf(doc_page_ranges[d]), connected[d])]),
               {})

\* expanded_blocks.sort(key=lambda x: (str(x.get("document_id")), x.get("page", 0)))
RECURSIVE InsertByDocPage(_, _)
InsertByDocPage(sorted, b) ==
    IF sorted = <<>> THEN <<b>>
    ELSE LET h == Head(sorted)
         IN  IF \/ b.document_id < h.document_id
                \/ (b.document_id = h.document_id /\ b.page < h.page)
             THEN <<b>> \o sorted
             ELSE <<h>> \o InsertByDocPage(Tail(sorted), b)
RECURSIVE SortByDocPage(_)
SortByDocPage(list) ==
    IF list = <<>> THEN <<>>
    ELSE InsertByDocPage(SortByDocPage(SubSeq(list, 1, Len(list) - 1)), list[Len(list)])

\* The "[source: filename, page]" part made of the contents in cur.
Section(cur) ==
    [kind |-> "page", filename |-> cur.filename, page |-> cur.page,
     content |-> cur.content]
\* A variant of the loop that starts a new section only when the document
\* changes.
RECURSIVE PageSectionsLoopPerDoc(_, _, _)
PageSectionsLoopPerDoc(blocks, cur, parts) ==
    IF blocks = <<>>
    THEN IF cur.content # <<>> THEN Append(parts, Section(cur)) ELSE parts
    ELSE LET b == Head(blocks)
             flush == cur.doc # b.document_id /\ cur.content # <<>>
             kept == IF flush THEN <<>> ELSE cur.content
         IN  PageSectionsLoopPerDoc(Tail(blocks),
                 [doc |-> b.document_id, page |-> b.page, filename |-> b.filename,
                  content |-> IF b.content.len > 0 THEN Append(kept, b.content.text)
                              ELSE kept],
                 IF flush THEN Append(parts, Section(cur)) ELSE parts)
\* The loop "for block in expanded_blocks" that groups the contents per page.
RECURSIVE PageSectionsLoop(_, _, _)
PageSectionsLoop(blocks, cur, parts) ==
    IF blocks = <<>>
    THEN IF cur.content # <<>> THEN Append(parts, Section(cur)) ELSE parts
    ELSE LET b == Head(blocks)
             flush == (cur.doc # b.document_id \/ cur.page # b.page) /\ cur.content # <<>>
             kept == IF flush THEN <<>> ELSE cur.content
         IN  PageSectionsLoop(Tail(blocks),
                 [doc |-> b.document_id, page |-> b.page, filename |-> b.filename,
                  content |-> IF b.content.len > 0 THEN Append(kept, b.content.text)
                              ELSE kept],
                 IF flush THEN Append(parts, Section(cur)) ELSE parts)
PageSections(blocks) ==
    PageSectionsLoop(blocks, [doc |-> 0, page |-> 0, filename |-> "", content |-> <<>>],
                     <<>>)

\* The "[document summary]" parts: for doc_id in document_ids, the summary of
\* db.get_document(doc_id) when the document was read and has one.
RECURSIVE Summaries(_, _)
Summaries(ids, connected) ==
    IF ids = <<>> THEN <<>>
    ELSE LET d == Head(ids)
         IN  (IF connected[d] /\ Documents[d].summary # ""
              THEN <<[kind |-> "summary", filename |-> Documents[d].filename,
                      summary |-> Documents[d].summary]>>
              ELSE <<>>) \o Summaries(Tail(ids), connected)

\* b["content"][:100] + "..." if len(b["content"]) > 100 else b["content"]
Preview(content) ==
    IF content.len > PreviewLen
    THEN [text |-> content.text, len |-> PreviewLen, ellipsis |-> TRUE]
    ELSE [text |-> content.text, len |-> content.len, ellipsis |-> FALSE]
\* sources = [... for b in relevant_blocks]
Sources(blocks) ==
    [i \in DOMAIN blocks |->
        [filename |-> blocks[i].filename, page |-> blocks[i].page,
         content |-> Preview(blocks[i].content),
         similarity |-> IF blocks[i].similarity # 0
                        THEN [v |-> blocks[i].similarity] ELSE NoneVal]]

\* The fixed not-found message.
NotFoundMessage(ids) ==
    IF Len(ids) > 0 THEN [kind |-> "not_found", scope |-> "selected", count |-> Len(ids)]
    ELSE [kind |-> "not_found", scope |-> "all", count |-> 0]
GeneratedAnswer == [kind |-> "generated", scope |-> "", count |-> 0]
\* AnswerResponse(answer=..., sources=...)
AnswerResponse(answer, sources) == [status |-> 200, answer |-> answer, sources |-> sources]
\* HTTPException(status_code=500, detail=...)
HttpError(detail) == [status |-> 500, detail |-> detail]
NoResponse == [status |-> 0]

\* What a call of db.log_query can do: commit the record and return its id
\* (stored); return None because ensure_connection failed or the insert
\* failed and was rolled back (failed); raise, because self.conn.rollback()
\* in its except clause raises on a connection that broke during the insert
\* (raised).
LogOutcomesNoRaise == {"stored", "failed"}
LogOutcomes == {"stored", "failed", "raised"}
\* db.log_query(..., status=status): one attempt to persist a record.
LogQuery(log, answer, status, outcome) ==
    Append(log, [answer |-> answer, status |-> status, outcome |-> outcome])

\* str(e) of the exception caught by "except Exception as e"
ExceptionAnswer == [kind |-> "exception", scope |-> "", count |-> 0]
\* An exception that leaves the handler: the framework answers 500.
Unhandled == HttpError("unhandled exception")
\* except Exception as e: db.log_query(..., status="error"), then
\* raise HTTPException(status_code=500, detail=str(e))
ExceptLog(log, outcome) == LogQuery(log, ExceptionAnswer, "error", outcome)
ExceptResponse(outcome) ==
    IF outcome = "raised" THEN Unhandled ELSE HttpError("exception")
\* The log_query call that ends the try block and what follows it: the
\* response is returned unless log_query raised, which the generic except
\* clause catches.
LoggedReturn(log, answer, sources, first, second) ==
    IF first = "raised"
    THEN [log |-> ExceptLog(LogQuery(log, answer, "success", first), second),
          response |-> ExceptResponse(second), log_calls |-> 2]
    ELSE [log |-> LogQuery(log, answer, "success", first),
          response |-> AnswerResponse(answer, sources), log_calls |-> 1]

ZeroCalls ==
    [search_key_values |-> 0, get_blocks_by_page_range |-> 0, get_embedding |-> 0,
     search_blocks |-> 0, get_document |-> 0, generate_content |-> 0, log_query |-> 0]

IdleAsk ==
    /\ ask_pc = "idle"
    /\ question = <<>>
    /\ top_k = DefaultTopK
    /\ document_ids = <<>>
    /\ embedded = {}
    /\ matched_key_values = <<>>
    /\ use_block_search = TRUE
    /\ question_embedding = NoEmbedding
    /\ relevant_blocks = <<>>
    /\ expanded_blocks = <<>>
    /\ context_parts = <<>>
    /\ calls = ZeroCalls
    /\ query_log = <<>>
    /\ response = NoResponse

\* The questions asked: a phrase matched in both documents, a phrase in
\* another letter case, two phrases, no phrase at all, and a blank question.
Questions ==
    {<<"xue", "li", "shi", "shen", "me">>,
     <<"E", "m", "a", "i", "l">>,
     <<"dian", "hua", "he", "e", "m", "a", "i", "l">>,
     <<"tian", "qi">>,
     <<" ">>}
\* request.document_ids: None or a list of document ids.
Scopes == {<<>>, <<1>>, <<2>>, <<1, 2>>}
TopKs == {1, DefaultTopK}

\* The state of a request when ask_question is entered.
InitRequest(questions, limits, scopes, embeddings) ==
    /\ ask_pc = "start"
    /\ question \in questions
    /\ top_k \in limits
    /\ document_ids \in scopes
    /\ embedded \in embeddings
    /\ matched_key_values = <<>>
    /\ use_block_search = TRUE
    /\ question_embedding = NoEmbedding
    /\ relevant_blocks = <<>>
    /\ expanded_blocks = <<>>
    /\ context_parts = <<>>
    /\ calls = ZeroCalls
    /\ query_log = <<>>
    /\ response = NoResponse
InitAsk == InitRequest(Questions, TopKs, Scopes, SUBSET BlockIds)

\* The blocks whose embedding a query of the handler's connection sees while
\* another connection holds updates in an open transaction: the committed
\* ones (PostgreSQL's default isolation, READ COMMITTED); and a variant that
\* also sees the uncommitted updates.
VisibleDirty(committed, uncommitted) == committed \cup uncommitted
Visible(committed, uncommitted) == committed

\* Steps 1 and 2 of ask_question: keyword extraction, the keyword search and,
\* when it is sufficient, the key facts and the supplementary blocks.
KeywordTier ==
    /\ ask_pc = "start"
    /\ \E connected \in BOOLEAN, range_connected \in [DocIds -> BOOLEAN] :
        LET kvs == SearchKeyValues(AllKeywords(question), document_ids, connected)
        IN  /\ matched_key_values' = kvs
            /\ IF KeywordTierSufficient(kvs)
               THEN /\ use_block_search' = FALSE
                    /\ context_parts' = <<KeyFacts(kvs)>>
                    /\ expanded_blocks' = KvExpansion(kvs, range_connected)
                    /\ calls' = [calls EXCEPT
                           !.search_key_values = @ + 1,
                           !.get_blocks_by_page_range =
                               @ + Cardinality({kvs[i].document_id : i \in DOMAIN kvs})]
                    /\ ask_pc' = "generate"
               ELSE /\ use_block_search' = TRUE
                    /\ calls' = [calls EXCEPT !.search_key_values = @ + 1]
                    /\ ask_pc' = "embed"
                    /\ UNCHANGED <<context_parts, expanded_blocks>>
    /\ UNCHANGED <<question, top_k, document_ids, embedded, question_embedding,
                   relevant_blocks, query_log, response>>
    /\ UNCHANGED <<ingestVars, fixVars, uploadVars, backfillVars, lockVars>>

\* Step 3, first half: the question is embedded; without an embedding the
\* handler raises HTTPException, which "except HTTPException: raise" passes on.
Embed ==
    /\ ask_pc = "embed"
    /\ use_block_search
    /\ \E embedding \in GetEmbedding(question) :
        /\ question_embedding' = embedding
        /\ calls' = [calls EXCEPT !.get_embedding = @ + 1]
        /\ IF embedding = NoEmbedding
           THEN /\ response' = HttpError("no embedding")
                /\ ask_pc' = "done"
           ELSE /\ response' = response
                /\ ask_pc' = "search"
    /\ UNCHANGED <<question, top_k, document_ids, embedded, matched_key_values,
                   use_block_search, relevant_blocks, expanded_blocks, context_parts,
                   query_log>>
    /\ UNCHANGED <<ingestVars, fixVars, uploadVars, backfillVars, lockVars>>

\* Step 3, second half: the vector search, then either the not-found answer
\* or the expansion of the hits.
VectorTier ==
    /\ ask_pc = "search"
    /\ \E connected \in BOOLEAN,
          base \in [Visible(embedded, backfill.uncommitted) -> {0, 500}],
          range_connected \in [DocIds -> BOOLEAN], first \in LogOutcomes :
      \E second \in (IF first = "raised" THEN LogOutcomes ELSE {first}) :
        LET hits == SearchBlocks(top_k, document_ids, base,
                                 Visible(embedded, backfill.uncommitted), connected)
            end == LoggedReturn(query_log, NotFoundMessage(document_ids), <<>>,
                                first, second)
        IN  /\ relevant_blocks' = hits
            /\ IF hits = <<>> /\ matched_key_values = <<>>
               THEN /\ response' = end.response
                    /\ query_log' = end.log
                    /\ calls' = [calls EXCEPT !.search_blocks = @ + 1,
                                              !.log_query = @ + end.log_calls]
                    /\ ask_pc' = "done"
                    /\ UNCHANGED <<expanded_blocks, context_parts>>
               ELSE /\ expanded_blocks' = VectorExpansion(hits, range_connected)
                    /\ context_parts' = IF matched_key_values # <<>>
                                        THEN <<KeyFacts(matched_key_values)>>
                                        ELSE <<>>
                    /\ calls' = [calls EXCEPT
                           !.search_blocks = @ + 1,
                           !.get_blocks_by_page_range =
                               @ + Cardinality({hits[i].document_id : i \in DOMAIN hits})]
                    /\ ask_pc' = "generate"
                    /\ UNCHANGED <<response, query_log>>
    /\ UNCHANGED <<question, top_k, document_ids, embedded, matched_key_values,
                   use_block_search, question_embedding>>
    /\ UNCHANGED <<ingestVars, fixVars, uploadVars, backfillVars, lockVars>>

\* Steps 4 and 5: the context is assembled, the answer generated, the sources
\* listed and the query logged; an exception of the generation model, or of
\* log_query itself, is logged with status error and answered by HTTPException.
Generate ==
    /\ ask_pc = "generate"
    /\ \E generated \in BOOLEAN, first \in LogOutcomes,
          doc_connected \in [DocIds -> BOOLEAN] :
      \E second \in (IF first = "raised" THEN LogOutcomes ELSE {first}) :
        LET sorted == SortByDocPage(expanded_blocks)
            end == LoggedReturn(query_log, GeneratedAnswer, Sources(relevant_blocks),
                                first, second)
        IN  /\ expanded_blocks' = sorted
            /\ context_parts' = context_parts \o PageSections(sorted)
                                    \o Summaries(document_ids, doc_connected)
            /\ IF generated
               THEN /\ response' = end.response
                    /\ query_log' = end.log
                    /\ calls' = [calls EXCEPT !.get_document = @ + Len(document_ids),
                                              !.generate_content = @ + 1,
                                              !.log_query = @ + end.log_calls]
               ELSE /\ response' = ExceptResponse(first)
                    /\ query_log' = ExceptLog(query_log, first)
                    /\ calls' = [calls EXCEPT !.get_document = @ + Len(document_ids),
                                              !.generate_content = @ + 1,
                                              !.log_query = @ + 1]
    /\ ask_pc' = "done"
    /\ UNCHANGED <<question, top_k, document_ids, embedded, matched_key_values,
                   use_block_search, question_embedding, relevant_blocks>>
    /\ UNCHANGED <<ingestVars, fixVars, uploadVars, backfillVars, lockVars>>

\* ------------------------------------------------------------------ upload

\* The ingestion results handed to the upload handler: an unsuccessful one,
\* and successful ones with n header blocks with content, n header blocks
\* whose content is blank, n key-value pairs and n images with and n images
\* without a description.
UploadBlocks(n) ==
    [i \in 1..(2 * n) |->
        [id |-> "block_" \o Pad3(i), type |-> "header", page |-> IntVal(1),
         content |-> IF i <= n THEN "title" ELSE " "]]
UploadImages(n) ==
    [i \in 1..(2 * n) |->
        [id |-> "img_" \o Pad3(i), type |-> "photo", page |-> IntVal(1),
         description |-> IF i <= n THEN "a photo" ELSE ""]]
UploadResults ==
    {ErrorResult("all batches failed")}
    \cup {SingleResult([detected_type |-> "invoice", language |-> "zh",
                        blocks |-> UploadBlocks(n),
                        key_value_pairs |-> [i \in 1..k |-> RawKeyValue(IntVal(1))],
                        images |-> UploadImages(m), summary |-> "s"], 1) :
             n \in 0..MaxItems, k \in 0..MaxItems, m \in 0..MaxItems}

\* The concatenation of the lists f[1], ..., f[n].
RECURSIVE Flatten(_, _)
Flatten(f, n) == IF n = 0 THEN <<>> ELSE Flatten(f, n - 1) \o f[n]

\* The INSERT statements of save_document in the order it executes them, each
\* written as the row it inserts.
Statements(ocr_result, filename) ==
    LET blocks == Get(ocr_result, "blocks", <<>>)
        key_values == Get(ocr_result, "key_value_pairs", <<>>)
        images_summary == Get(ocr_result, "images_summary", NoneVal)
        items == IF images_summary = NoneVal THEN <<>> ELSE images_summary.items
    IN  <<[table |-> "documents", filename |-> filename,
           total_pages |-> Get(ocr_result, "total_pages", 0)]>>
        \o [i \in DOMAIN blocks |->
               [table |-> "blocks", block_id |-> Get(blocks[i], "id", ""),
                page |-> Get(blocks[i], "page", NoneVal)]]
        \o [i \in DOMAIN key_values |->
               [table |-> "key_values", key |-> Get(key_values[i], "key", ""),
                page |-> Get(key_values[i], "page", NoneVal)]]
        \o Flatten([i \in DOMAIN blocks |->
                       IF /\ Get(blocks[i], "type", "") \in {"header", "section_title"}
                          /\ Get(blocks[i], "content", "") \notin {"", " "}
                       THEN <<[table |-> "key_values", key |-> "section title",
                               page |-> Get(blocks[i], "page", NoneVal)]>>
                       ELSE <<>>], Len(blocks))
        \o Flatten([i \in DOMAIN items |->
                       <<[table |-> "images", image_type |-> Get(items[i], "type", ""),
                          page |-> Get(items[i], "page", NoneVal)]>>
                       \o (IF Get(items[i], "description", "") \notin {"", " "}
                           THEN <<[table |-> "key_values", key |-> "image content",
                                   page |-> Get(items[i], "page", NoneVal)]>>
                           ELSE <<>>)], Len(items))

\* A variant of the rollback that leaves the rows inserted so far.
RollbackKeepsRows(committed, pending) == committed \o pending
\* self.conn.rollback(): the rows of the open transaction are discarded.
Rollback(committed, pending) == committed
\* self.conn.commit()
Commit(committed, pending) == committed \o pending

IdleUpload ==
    /\ upload_pc = "idle"
    /\ save_to_db = TRUE
    /\ result_dict = ErrorResult("")
    /\ pending_rows = <<>>
    /\ stored_rows = <<>>
    /\ save_calls = 0
    /\ discarded_rows = 0
    /\ saved_id = NoneVal

\* The state of ocr_upload after agent.process_bytes has returned.
InitUpload ==
    /\ upload_pc = "processed"
    /\ save_to_db \in BOOLEAN
    /\ result_dict \in UploadResults
    /\ pending_rows = <<>>
    /\ stored_rows = <<>>
    /\ save_calls = 0
    /\ discarded_rows = 0
    /\ saved_id = NoneVal

\* if save_to_db and result_dict.get("success"): db.save_document(...)
UploadDecide ==
    /\ upload_pc = "processed"
    /\ IF save_to_db /\ result_dict.success
       THEN /\ upload_pc' = "saving"
            /\ save_calls' = save_calls + 1
       ELSE /\ upload_pc' = "respond"
            /\ save_calls' = save_calls
    /\ UNCHANGED <<save_to_db, result_dict, pending_rows, stored_rows,
                   discarded_rows, saved_id>>
    /\ UNCHANGED <<ingestVars, fixVars, askVars, backfillVars, lockVars>>

\* One cur.execute of save_document succeeds: its row joins the transaction.
SaveExecute ==
    /\ upload_pc = "saving"
    /\ Len(pending_rows) < Len(Statements(result_dict, "a.pdf"))
    /\ pending_rows' = Append(pending_rows,
                              Statements(result_dict, "a.pdf")[Len(pending_rows) + 1])
    /\ UNCHANGED <<upload_pc, save_to_db, result_dict, stored_rows, save_calls,
                   discarded_rows, saved_id>>
    /\ UNCHANGED <<ingestVars, fixVars, askVars, backfillVars, lockVars>>

\* The store is not connected, or a statement or the commit raises: the
\* transaction is rolled back and save_document raises, which ocr_upload
\* catches and logs.
SaveFail ==
    /\ upload_pc = "saving"
    /\ stored_rows' = Rollback(stored_rows, pending_rows)
    /\ pending_rows' = <<>>
    /\ discarded_rows' = Len(pending_rows)
    /\ upload_pc' = "respond"
    /\ UNCHANGED <<save_to_db, result_dict, save_calls, saved_id>>
    /\ UNCHANGED <<ingestVars, fixVars, askVars, backfillVars, lockVars>>

\* self.conn.commit() after the last statement; return str(doc_id)
SaveCommit ==
    /\ upload_pc = "saving"
    /\ Len(pending_rows) = Len(Statements(result_dict, "a.pdf"))
    /\ stored_rows' = Commit(stored_rows, pending_rows)
    /\ pending_rows' = <<>>
    /\ saved_id' = [id |-> 1]
    /\ upload_pc' = "respond"
    /\ UNCHANGED <<save_to_db, result_dict, save_calls, discarded_rows>>
    /\ UNCHANGED <<ingestVars, fixVars, askVars, backfillVars, lockVars>>

\* return OCRResponse(success=..., document_id=document_id, ...)
UploadRespond ==
    /\ upload_pc = "respond"
    /\ upload_pc' = "done"
    /\ UNCHANGED <<save_to_db, result_dict, pending_rows, stored_rows, save_calls,
                   discarded_rows, saved_id>>
    /\ UNCHANGED <<ingestVars, fixVars, askVars, backfillVars, lockVars>>

\* --------------------------------------------------------------- backfill

\* if updated % 10 == 0: conn.commit()
CommitEvery == 10

IdleBackfill ==
    backfill = [pc |-> "idle", runs |-> 0, kind |-> "", queue |-> <<>>,
                uncommitted |-> {}, updated |-> 0, written |-> {}]

\* The rows the backfill selects, by id: update_block_embeddings ("all") takes
\* the blocks without an embedding, update_embeddings_for_document
\* ("document") the blocks of one document; both only blocks with content.
BackfillQueue(kind, d, committed) ==
    LET rows == {b \in BlockTable :
                    /\ b.content.len > 0
                    /\ IF kind = "all" THEN b.id \notin committed
                       ELSE b.document_id = d}
    IN  [i \in 1..Cardinality(rows) |-> SortedSeq(rows, [r \in rows |-> r.id])[i].id]

\* A backfill run connects and selects its rows.
BackfillStart ==
    /\ backfill.pc \in {"idle", "done", "failed"}
    /\ backfill.runs < MaxBackfills
    /\ \E kind \in {"all", "document"}, d \in DocIds :
          backfill' = [pc |-> "running", runs |-> backfill.runs + 1, kind |-> kind,
                       queue |-> BackfillQueue(kind, d, embedded),
                       uncommitted |-> {}, updated |-> 0,
                       written |-> backfill.written]
    /\ UNCHANGED <<ingestVars, fixVars, askVars, uploadVars, lockVars>>

\* One iteration of "for block_id, content in blocks": the embedding is
\* computed and, when there is one, written by an UPDATE in the open
\* transaction; update_block_embeddings commits after every tenth update.
BackfillEmbed ==
    /\ backfill.pc = "running"
    /\ backfill.queue # <<>>
    /\ \E embedding \in {NoEmbedding, "vector"} :
          LET b == Head(backfill.queue)
              wrote == embedding # NoEmbedding
              updated == backfill.updated + (IF wrote THEN 1 ELSE 0)
              pending == backfill.uncommitted \cup (IF wrote THEN {b} ELSE {})
              commit == wrote /\ backfill.kind = "all" /\ updated % CommitEvery = 0
          IN  /\ backfill' = [backfill EXCEPT
                     !.queue = Tail(@), !.updated = updated,
                     !.uncommitted = IF commit THEN {} ELSE pending,
                     !.written = IF commit THEN @ \cup pending ELSE @]
              /\ embedded' = IF commit THEN embedded \cup pending ELSE embedded
    /\ UNCHANGED <<ask_pc, question, top_k, document_ids, matched_key_values,
                   use_block_search, question_embedding, relevant_blocks,
                   expanded_blocks, context_parts, calls, query_log, response>>
    /\ UNCHANGED <<ingestVars, fixVars, uploadVars, lockVars>>

\* conn.commit() after the loop: the updates become visible to other
\* connections.
BackfillCommit ==
    /\ backfill.pc = "running"
    /\ backfill.queue = <<>>
    /\ embedded' = embedded \cup backfill.uncommitted
    /\ backfill' = [backfill EXCEPT !.pc = "done", !.uncommitted = {},
                                    !.written = @ \cup backfill.uncommitted]
    /\ UNCHANGED <<ask_pc, question, top_k, document_ids, matched_key_values,
                   use_block_search, question_embedding, relevant_blocks,
                   expanded_blocks, context_parts, calls, query_log, response>>
    /\ UNCHANGED <<ingestVars, fixVars, uploadVars, lockVars>>

\* A statement or the commit raises, or the connection is lost: the run ends
\* and its open transaction is discarded.
BackfillAbort ==
    /\ backfill.pc = "running"
    /\ backfill' = [backfill EXCEPT !.pc = "failed", !.uncommitted = {}]
    /\ UNCHANGED <<ingestVars, fixVars, askVars, uploadVars, lockVars>>

\* --------------------------------------------------------------- log lock

\* _process_batch_with_retry statement by statement. A thread is queued,
\* waits for self._log_lock to write a log line (want), writes it inside the
\* with block (hold), runs _process_batch with its external call (in_call),
\* or has left the function (finished). holder is the thread that holds
\* self._log_lock, 0 when it is free.
IdleLock == lock_run = [workers |-> 0, threads |-> <<>>, holder |-> 0]

InitLock ==
    \E n \in 1..MaxPages, w \in 1..MaxWorkers :
        /\ ~SinglePath(n, GetBatchSize(n))
        /\ lock_run =
              [workers |-> w,
               threads |-> [b \in DOMAIN BatchTasks(n, GetBatchSize(n)) |->
                               [at |-> "queued", line |-> "", attempt |-> 0]],
               holder |-> 0]

\* A variant in which the start and retry lines are logged, and the external
\* call made, inside one with block.
LockKeptForCall(b, line) == IF line \in {"start", "retry"} THEN b ELSE 0
\* The holder of the lock when thread b leaves "with self._log_lock:".
LockAfterLog(b, line) == 0

\* A free worker takes the next queued task: _split_pdf, which may raise, and
\* then the start line is to be logged.
ThreadStart(b) ==
    /\ lock_run.threads[b].at = "queued"
    /\ \A c \in DOMAIN lock_run.threads : c < b => lock_run.threads[c].at # "queued"
    /\ Cardinality({c \in DOMAIN lock_run.threads :
                       lock_run.threads[c].at \in {"want", "hold", "in_call"}})
           < lock_run.workers
    /\ \E split_ok \in BOOLEAN :
          lock_run' = [lock_run EXCEPT !.threads[b] =
              IF split_ok THEN [at |-> "want", line |-> "start", attempt |-> 0]
              ELSE [at |-> "finished", line |-> "", attempt |-> 0]]
    /\ UNCHANGED <<ingestVars, fixVars, askVars, uploadVars, backfillVars>>

\* with self._log_lock: entered, which a threading.Lock allows only when no
\* thread holds it.
LogAcquire(b) ==
    /\ lock_run.threads[b].at = "want"
    /\ lock_run.holder = 0
    /\ lock_run' = [lock_run EXCEPT !.threads[b].at = "hold", !.holder = b]
    /\ UNCHANGED <<ingestVars, fixVars, askVars, uploadVars, backfillVars>>

\* The log line is written and the with block left; after the start line and
\* the retry warning the thread calls _process_batch, after the completion
\* and the failure line it returns.
LogRelease(b) ==
    /\ lock_run.threads[b].at = "hold"
    /\ lock_run' = [lock_run EXCEPT
           !.threads[b].at = IF lock_run.threads[b].line \in {"start", "retry"}
                             THEN "in_call" ELSE "finished",
           !.holder = LockAfterLog(b, lock_run.threads[b].line)]
    /\ UNCHANGED <<ingestVars, fixVars, askVars, uploadVars, backfillVars>>

\* self._process_batch(...) returns or raises: the completion line, the retry
\* warning (attempt 0) or the failure line (attempt 1) is to be logged.
CallReturn(b) ==
    /\ lock_run.threads[b].at = "in_call"
    /\ \E ok \in BOOLEAN :
          lock_run' = [lock_run EXCEPT !.threads[b] =
              IF ok THEN [@ EXCEPT !.at = "want", !.line = "done"]
              ELSE IF @.attempt = RetryLimit - 1
                   THEN [@ EXCEPT !.at = "want", !.line = "failed"]
                   ELSE [at |-> "want", line |-> "retry", attempt |-> @.attempt + 1]]
    /\ UNCHANGED <<ingestVars, fixVars, askVars, uploadVars, backfillVars>>

\* ---------------------------------------------------------- specifications

\* max_workers: int = 4
DefaultWorkers == 4

NextIngest ==
    \/ ProcessBegin
    \/ SingleBatch
    \/ \E b \in Batches : TaskStart(b)
    \/ \E b \in Batches : TaskAttempt(b)
    \/ \E b \in Batches : Collect(b)
    \/ Unwind
    \/ Finish

\* The ingestion of one PDF by process_bytes.
Init == InitIngest(1..MaxPages, 1..MaxWorkers) /\ IdleFix /\ IdleAsk /\ IdleUpload /\ IdleBackfill /\ IdleLock
Spec == Init /\ [][NextIngest]_vars

\* ---------------------------------------- specification: merge of a long PDF

\* Sets of at most k elements of S.
SubsetsUpTo(S, k) == {x \in SUBSET S : Cardinality(x) <= k}

RECURSIVE Reverse(_)
Reverse(seq) == IF seq = <<>> THEN <<>> ELSE Reverse(Tail(seq)) \o <<Head(seq)>>

\* What _process_batch returned for batch b of a long document: an output
\* without a summary for the batches of silent (the empty dict, or an output
\* whose summary is empty), one block and a summary for the others.
LongBatchResult(b, t, silent) ==
    IF b \in silent
    THEN IF b % 2 = 1 THEN <<>>
         ELSE FullOutput(t.start_page, <<>>, <<>>, <<>>, <<>>)
    ELSE ForceFixPageNumbers(
             FullOutput(t.start_page, Records("b", 1, IntVal(1)), <<>>, <<>>, <<>>),
             t.start_page, t.end_page)

\* The dicts of the batches that succeeded, in page order.
RECURSIVE SuccessesFrom(_, _, _, _)
SuccessesFrom(b, tasks, silent, failed) ==
    IF b > Len(tasks) THEN <<>>
    ELSE (IF b \in failed THEN <<>>
          ELSE <<BatchSuccess(tasks[b], LongBatchResult(b, tasks[b], silent))>>)
         \o SuccessesFrom(b + 1, tasks, silent, failed)

\* _process of a long PDF at the end of the as_completed loop: every task has
\* finished and every future has been collected, in page order or in the
\* reverse order; at most one batch failed both attempts and at most two
\* returned no summary.
InitMerge ==
    \E n \in MinLongPages..MaxLongPages :
      \E tasks \in {BatchTasks(n, GetBatchSize(n))} :
      \E silent \in SubsetsUpTo(DOMAIN tasks, 2) :
        \E failed \in SubsetsUpTo(DOMAIN tasks, 1) :
          \E reversed \in BOOLEAN :
          \E successes \in {SuccessesFrom(1, tasks, silent, failed)} :
            /\ pc = "collect"
            /\ total_pages = n
            /\ count_raised = FALSE
            /\ max_workers = DefaultWorkers
            /\ batch_size = GetBatchSize(n)
            /\ batch_tasks = tasks
            /\ task = [b \in DOMAIN tasks |->
                          [st |-> "finished",
                           attempt |-> IF b \in failed THEN RetryLimit - 1 ELSE 0]]
            /\ future = [b \in DOMAIN tasks |->
                          [state |-> "returned",
                           value |-> IF b \in failed THEN BatchFailure(tasks[b])
                                     ELSE BatchSuccess(tasks[b],
                                              LongBatchResult(b, tasks[b], silent))]]
            /\ collected = DOMAIN tasks
            /\ in_page_order = ~reversed
            /\ batch_results = IF reversed THEN Reverse(successes) ELSE successes
            /\ successful_batches = Len(successes)
            /\ failed_batches = Cardinality(failed)
            /\ attempts = [b \in DOMAIN tasks |->
                              IF b \in failed
                              THEN [calls |-> RetryLimit, fails |-> RetryLimit]
                              ELSE [calls |-> 1, fails |-> 0]]
            /\ doc = NoDoc

\* The sort and the merge of a long PDF's batches.
InitLong == InitMerge /\ IdleFix /\ IdleAsk /\ IdleUpload /\ IdleBackfill /\ IdleLock
SpecMerge == InitLong /\ [][Finish]_vars

\* The segmentation of a PDF alone, for larger page counts.
InitSegment ==
    InitIngest(1..MaxSegPages, {DefaultWorkers}) /\ IdleFix /\ IdleAsk /\ IdleUpload /\ IdleBackfill /\ IdleLock
SpecSegment == InitSegment /\ [][ProcessBegin]_vars

\* The page reconciliation of one extractor output.
InitReconcile == IdleIngest /\ InitFix /\ IdleAsk /\ IdleUpload /\ IdleBackfill /\ IdleLock
SpecFix == InitReconcile /\ [][ForceFix]_vars

NextAsk ==
    \/ KeywordTier
    \/ Embed
    \/ VectorTier
    \/ Generate

\* One request to POST /ask.
InitQuestion == IdleIngest /\ IdleFix /\ InitAsk /\ IdleUpload /\ IdleBackfill /\ IdleLock
SpecAsk == InitQuestion /\ [][NextAsk]_vars

NextRace ==
    \/ KeywordTier
    \/ Embed
    \/ VectorTier
    \/ Generate
    \/ BackfillStart
    \/ BackfillEmbed
    \/ BackfillCommit
    \/ BackfillAbort

\* One request to POST /ask without a keyword match, unscoped or scoped to
\* one document, while the backfill runs; at first no block, or one, has an
\* embedding.
InitRace ==
    /\ IdleIngest /\ IdleFix /\ IdleUpload /\ IdleBackfill /\ IdleLock
    /\ InitRequest({<<"tian", "qi">>}, {DefaultTopK}, {<<>>, <<1>>}, {{}, {4}})
SpecBackfill == InitRace /\ [][NextRace]_vars

NextLock ==
    \E b \in DOMAIN lock_run.threads :
        \/ ThreadStart(b)
        \/ LogAcquire(b)
        \/ LogRelease(b)
        \/ CallReturn(b)

\* The batch tasks of one ingestion on the threads of the pool.
InitThreads == IdleIngest /\ IdleFix /\ IdleAsk /\ IdleUpload /\ IdleBackfill /\ InitLock
SpecLock == InitThreads /\ [][NextLock]_vars

NextUpload ==
    \/ UploadDecide
    \/ SaveExecute
    \/ SaveFail
    \/ SaveCommit
    \/ UploadRespond

\* One request to POST /ocr/upload, from the return of process_bytes on.
InitStore == IdleIngest /\ IdleFix /\ IdleAsk /\ InitUpload /\ IdleBackfill /\ IdleLock
SpecUpload == InitStore /\ [][NextUpload]_vars

\* ================================================================== claims

\* The page ranges _process hands to _process_batch in the current run.
ProcessedRanges ==
    IF batch_tasks = <<>>
    THEN <<[batch_num |-> 1, start_page |-> 1, end_page |-> total_pages]>>
    ELSE batch_tasks

\* C1: for every page count N >= 1 the page ranges built by _process are
\* ordered 1-based ranges with start <= end, the first starts at page 1, each
\* starts right after the previous one ends, the last ends at page N, and
\* every page of [1, N] lies in exactly one of them.
C1_RangesPartitionPages ==
    pc # "init" =>
        LET r == ProcessedRanges IN
        /\ Len(r) >= 1
        /\ r[1].start_page = 1
        /\ r[Len(r)].end_page = total_pages
        /\ \A i \in DOMAIN r :
            /\ 1 <= r[i].start_page
            /\ r[i].start_page <= r[i].end_page
            /\ i > 1 => r[i].start_page = r[i - 1].end_page + 1
        /\ \A page \in 1..total_pages :
            Cardinality({i \in DOMAIN r :
                            r[i].start_page <= page /\ page <= r[i].end_page}) = 1

\* C1 witness: a document split into several batches whose last batch is
\* shorter than the batch size.
C1_Witness ==
    /\ pc = "collect"
    /\ Len(batch_tasks) >= 3
    /\ LET last == batch_tasks[Len(batch_tasks)]
       IN  last.end_page - last.start_page + 1 < batch_size

\* C2: after _force_fix_page_numbers has returned for a batch [s, e], every
\* block, key-value pair, table and image of the result that carries a page
\* has an integer page p with s <= p <= e, whatever page value the extractor
\* returned.
C2_PagesInBatchRange ==
    fix_pc = "fixed" =>
        \A kr \in PagedRecords(fix_result) :
            LET p == fix_result[kr[1]][kr[2]].page IN
            /\ p.k = "int"
            /\ fix_range.start_page <= p.v
            /\ p.v <= fix_range.end_page

\* C2 witness: an output whose four lists all carry an out-of-range page has
\* been reconciled for a batch of more than one page that is not the first.
C2_Witness ==
    /\ fix_pc = "fixed"
    /\ fix_range.start_page > 1
    /\ fix_range.end_page > fix_range.start_page
    /\ {kr[1] : kr \in PagedRecords(fix_raw)} = RecordKinds
    /\ \A kr \in PagedRecords(fix_raw) :
           fix_raw[kr[1]][kr[2]].page = IntVal(fix_range.end_page + 2)

\* The results of the batches that succeeded, by ascending start page.
RECURSIVE ResultsFromPage(_)
ResultsFromPage(page) ==
    IF page > total_pages THEN <<>>
    ELSE LET here == {b \in Batches : /\ future[b].state = "returned"
                                      /\ future[b].value.success
                                      /\ future[b].value.start_page = page}
         IN  (IF here = {} THEN <<>> ELSE <<future[CHOOSE b \in here : TRUE].value.result>>)
             \o ResultsFromPage(page + 1)

\* C3: whatever the order in which the worker pool completed the batches,
\* the document-level result (ids and order of blocks, tables and images,
\* order of key-value pairs, detected type, language) is the merge of the
\* successful batches taken in ascending start-page order.
C3_MergeOrderIndependent ==
    (pc = "done" /\ batch_tasks # <<>> /\ doc.success) =>
        LET m == MergeResults(ResultsFromPage(1), total_pages) IN
        /\ doc.blocks = m.blocks
        /\ doc.key_value_pairs = m.key_value_pairs
        /\ doc.tables = m.tables
        /\ doc.images_summary = m.images_summary
        /\ doc.detected_type = m.detected_type
        /\ doc.language = m.language

\* C3 witness: a merged result of batches with records that were collected
\* out of page order.
C3_Witness ==
    /\ pc = "done"
    /\ doc.success
    /\ ~in_page_order
    /\ Len(doc.blocks) > MaxItems

\* The batches that failed both attempts.
FailedTwice == {b \in Batches : attempts[b].fails = RetryLimit}
\* The batches whose task returned a successful result.
Succeeded == {b \in Batches : future[b].state = "returned" /\ future[b].value.success}

\* C4 (as claimed): with k batches of which f failed (both attempts, or in any
\* other way) and k - f succeeded, f < k gives a successful result reporting
\* batch_count k, failed_batches f and successful_batches k - f, and f = k
\* gives an unsuccessful result.
C4_BatchCounts ==
    (pc = "done" /\ batch_tasks # <<>>) =>
        LET k == Len(batch_tasks)
            f == Cardinality(Batches \ Succeeded)
        IN  /\ f < k =>
                /\ doc.success
                /\ doc.processing_time.batch_count = k
                /\ doc.processing_time.failed_batches = f
                /\ doc.processing_time.successful_batches = k - f
            /\ f = k => ~doc.success

\* C5 (as claimed): the ingestion result is unsuccessful only if every batch
\* failed, so never while some batch succeeded.
C5_FailsOnlyIfAllFail ==
    (pc = "done" /\ ~doc.success) => Succeeded = {}

\* C6 (as claimed): for every page range, the single range of a small
\* document included, the extraction is attempted once, a second time if and
\* only if the first attempt failed, never a third time, and the range is
\* recorded as failed only after two failed attempts.
C6_RetryExactlyOnce ==
    \A r \in DOMAIN attempts :
        LET finished == IF batch_tasks = <<>> THEN pc = "done"
                        ELSE task[r].st = "finished"
            recorded_failed == IF batch_tasks = <<>> THEN ~doc.success
                               ELSE ~(future[r].state = "returned"
                                      /\ future[r].value.success)
        IN  finished =>
               /\ attempts[r].calls >= 1
               /\ attempts[r].calls <= 2
               /\ attempts[r].calls = 2 <=> attempts[r].fails >= 1
               /\ recorded_failed => attempts[r].fails = 2

\* C7: at every moment the number of batch tasks that have started and not
\* yet returned is at most max_workers.
C7_InFlightBounded == Cardinality(Running) <= max_workers

\* C7 witness: every worker is busy while a further task waits in the queue.
C7_Witness ==
    /\ Cardinality(Running) = max_workers
    /\ \E b \in Batches : task[b].st = "queued"

DocPages ==
    {doc.blocks[i].page.v : i \in {j \in DOMAIN doc.blocks : "page" \in DOMAIN doc.blocks[j]}}
    \cup {doc.key_value_pairs[i].page.v :
             i \in {j \in DOMAIN doc.key_value_pairs :
                       "page" \in DOMAIN doc.key_value_pairs[j]}}
    \cup {doc.tables[i].page.v : i \in {j \in DOMAIN doc.tables : "page" \in DOMAIN doc.tables[j]}}
    \cup {doc.images_summary.items[i].page.v :
             i \in {j \in DOMAIN doc.images_summary.items :
                       "page" \in DOMAIN doc.images_summary.items[j]}}

\* C9 (as claimed): when a batch [s, e] failed both attempts and another
\* batch succeeded, the result is successful, its total_pages is the page
\* count N of the document, and no record of it has a page in [s, e].
C9_FailedRangeExcluded ==
    pc = "done" =>
        \A b \in FailedTwice :
            Succeeded # {} =>
                /\ doc.success
                /\ doc.total_pages = total_pages
                /\ \A page \in DocPages :
                       ~(batch_tasks[b].start_page <= page /\ page <= batch_tasks[b].end_page)

\* C10 (as claimed): a finished request has called get_embedding and
\* search_blocks if and only if the keyword tier returned fewer than 2 matches.
C10_VectorTierIffFewMatches ==
    ask_pc = "done" =>
        ((calls.get_embedding > 0 /\ calls.search_blocks > 0)
            <=> Len(matched_key_values) < 2)

\* C10 (amended): with 2 or more keyword matches neither get_embedding nor
\* search_blocks is called at any point of the request; a finished request has
\* called get_embedding exactly once if the keyword tier returned fewer than 2
\* matches, and search_blocks exactly once if moreover the question got an
\* embedding; otherwise not at all.
C10_VectorTierGated ==
    /\ Len(matched_key_values) >= 2 =>
           calls.get_embedding = 0 /\ calls.search_blocks = 0
    /\ calls.search_blocks <= calls.get_embedding
    /\ ask_pc = "done" =>
           /\ calls.get_embedding = (IF Len(matched_key_values) < 2 THEN 1 ELSE 0)
           /\ calls.search_blocks =
                  (IF Len(matched_key_values) < 2 /\ question_embedding # NoEmbedding
                   THEN 1 ELSE 0)
\* A request answered from 2 keyword matches alone.
C10_Witness ==
    /\ ask_pc = "done"
    /\ Len(matched_key_values) >= 2
    /\ response = AnswerResponse(GeneratedAnswer, <<>>)
    /\ calls.search_key_values = 1
    /\ calls.get_embedding = 0

\* C11 (as claimed): a finished request whose keyword tier and vector tier
\* both yielded nothing, the question that got no embedding included, returns
\* the fixed not-found answer (naming the number of selected documents under a
\* document filter, all documents otherwise) with no sources, has not called
\* the generation model and has written one audit log entry.
C11_NotFoundWhenNoEvidence ==
    (ask_pc = "done" /\ matched_key_values = <<>> /\ relevant_blocks = <<>>) =>
        /\ response = AnswerResponse(NotFoundMessage(document_ids), <<>>)
        /\ response.answer.scope = (IF Len(document_ids) > 0 THEN "selected" ELSE "all")
        /\ response.answer.count = Len(document_ids)
        /\ calls.generate_content = 0
        /\ Len(query_log) = 1

\* C12 (as claimed): every finished request, however it ended, has attempted
\* to persist exactly one query-log record, with status success for an answer
\* and error for a failure.
C12_ExactlyOneLog ==
    ask_pc = "done" =>
        /\ Len(query_log) = 1
        /\ calls.log_query = 1
        /\ query_log[1].status = (IF response.status = 200 THEN "success" ELSE "error")

\* C13 (as claimed): db.log_query never raises, and a finished request that
\* logged returns what it would have returned had logging succeeded: the
\* answer it logged with status success, with the sources of the vector hits,
\* or the error of the exception it logged with status error.
C13_LogFailureHarmless ==
    (ask_pc = "done" /\ query_log # <<>>) =>
        /\ \A i \in DOMAIN query_log : query_log[i].outcome # "raised"
        /\ response =
              (IF query_log[1].status = "success"
               THEN AnswerResponse(query_log[1].answer,
                        IF query_log[1].answer = GeneratedAnswer
                        THEN Sources(relevant_blocks) ELSE <<>>)
               ELSE HttpError("exception"))

\* The ids of the blocks of document d on the pages p, p + 1 and p + 2 of the
\* vector hits of d.
HitPagesBlocks(d) ==
    {b.id : b \in {r \in BlockTable :
        /\ r.document_id = d
        /\ \E i \in DOMAIN relevant_blocks :
               /\ relevant_blocks[i].document_id = d
               /\ relevant_blocks[i].page <= r.page
               /\ r.page <= relevant_blocks[i].page + 2}}
\* The ids of the expanded blocks of document d.
ExpandedOf(d) ==
    {expanded_blocks[i].id :
        i \in {j \in DOMAIN expanded_blocks : expanded_blocks[j].document_id = d}}

\* C14 (as claimed): after the expansion of vector hits, the expanded blocks
\* of every document are exactly its blocks on the pages p, p + 1, p + 2 of
\* its hits (or none, when the store could not be read), no block of another
\* page, and no block twice.
C14_ExpansionIsUnionOfHitPages ==
    (ask_pc \in {"generate", "done"} /\ use_block_search /\ relevant_blocks # <<>>) =>
        /\ \A d \in DocIds : ExpandedOf(d) \in {{}, HitPagesBlocks(d)}
        /\ \A i, j \in DOMAIN expanded_blocks :
               expanded_blocks[i].id = expanded_blocks[j].id => i = j

\* The blocks, key-value pairs, tables and images of the returned document.
DocRecords ==
    Range(doc.blocks) \cup Range(doc.key_value_pairs) \cup Range(doc.tables)
    \cup (IF doc.images_summary = NoneVal THEN {} ELSE Range(doc.images_summary.items))

\* C15 (as claimed): in every successful ingestion result, of the single-call
\* path and of the merged path, every block, key-value pair, table and image
\* has a page p with 1 <= p <= total_pages, the records for which the
\* extractor returned no page field included.
C15_EveryRecordHasPageInDocument ==
    (pc = "done" /\ doc.success) =>
        \A rec \in DocRecords :
            /\ "page" \in DOMAIN rec
            /\ rec.page.k = "int"
            /\ 1 <= rec.page.v
            /\ rec.page.v <= doc.total_pages

\* C16: db.save_document is called only for an ingestion result with success
\* true, so nothing is stored for an unsuccessful one; and the rows committed
\* for an upload are at every moment either none or all rows of the document,
\* none when save_document failed part-way.
C16_NoDocumentUnlessSaved ==
    /\ save_calls > 0 => (result_dict.success /\ save_to_db)
    /\ ~result_dict.success => (stored_rows = <<>> /\ pending_rows = <<>>)
    /\ stored_rows \in {<<>>, Statements(result_dict, "a.pdf")}
    /\ (upload_pc \in {"respond", "done"} /\ saved_id = NoneVal) => stored_rows = <<>>
    /\ (upload_pc \in {"respond", "done"} /\ saved_id # NoneVal) =>
           stored_rows = Statements(result_dict, "a.pdf")

\* C16 witness: save_document failed after the document row, block rows and
\* key-value rows had been inserted, and the upload was answered.
C16_Witness ==
    /\ upload_pc = "done"
    /\ result_dict.success
    /\ save_calls = 1
    /\ saved_id = NoneVal
    /\ discarded_rows > 3
    /\ stored_rows = <<>>

\* The page the three rules give for an integer v and the batch [s, e].
RulePage(v, s, e) ==
    IF 1 <= v /\ v <= e - s + 1 THEN v + s - 1
    ELSE IF s <= v /\ v <= e THEN v
    ELSE s

\* Whether a returned page value is an integer or converts to one, and the
\* integer: an int, an integer literal in a string, a finite float (truncated).
Convertible(pv) == pv.k \in {"int", "str", "float"}
IntegerOf(pv) == IF pv.k = "float" THEN Trunc(pv.v) ELSE pv.v

\* C17: _force_fix_page_numbers returns for every extractor output, and the
\* page it leaves on a record is: v + s - 1 if the returned value v lies in
\* [1, e - s + 1]; otherwise v if it lies in [s, e]; otherwise, and for every
\* value that does not convert to an integer, the batch start page s.
C17_FixPageRules ==
    fix_pc # "raw" =>
        /\ fix_pc = "fixed"
        /\ \A kr \in PagedRecords(fix_raw) :
               LET pv == fix_raw[kr[1]][kr[2]].page
                   s == fix_range.start_page
                   e == fix_range.end_page
               IN  fix_result[kr[1]][kr[2]].page =
                       IntVal(IF Convertible(pv) THEN RulePage(IntegerOf(pv), s, e)
                              ELSE s)

\* The rules of C17 for every value on which fix_page returns.
C17_RulesWhenReturned ==
    fix_pc = "fixed" =>
        \A kr \in PagedRecords(fix_raw) :
            LET pv == fix_raw[kr[1]][kr[2]].page
                s == fix_range.start_page
                e == fix_range.end_page
            IN  fix_result[kr[1]][kr[2]].page =
                    IntVal(IF Convertible(pv) THEN RulePage(IntegerOf(pv), s, e)
                           ELSE s)

\* The records of one list of the given results, one result after the other.
RECURSIVE RecordsInOrder(_, _)
RecordsInOrder(results, key) ==
    IF results = <<>> THEN <<>>
    ELSE Get(Head(results), key, <<>>) \o RecordsInOrder(Tail(results), key)

\* list is the records of expected in the same order, the i-th with the id
\* prefix followed by i in three digits.
NumberedFrom1(list, expected, prefix) ==
    /\ Len(list) = Len(expected)
    /\ \A i \in DOMAIN list : list[i] = SetId(expected[i], prefix \o Pad3(i))
    /\ \A i, j \in DOMAIN list : list[i].id = list[j].id => i = j

\* C18: in a merged result the blocks are the blocks of the successful batches
\* in ascending start-page order and, within a batch, in the extractor's
\* order; the i-th has id block_ followed by i in three digits, so the ids are
\* unique and consecutive from 1 whatever ids the batches carried. The same
\* holds for the tables (table_) and the images (img_), each counted alone.
C18_IdsConsecutiveAfterMerge ==
    (pc = "done" /\ batch_tasks # <<>> /\ doc.success) =>
        LET results == ResultsFromPage(1) IN
        /\ NumberedFrom1(doc.blocks, RecordsInOrder(results, "blocks"), "block_")
        /\ NumberedFrom1(doc.tables, RecordsInOrder(results, "tables"), "table_")
        /\ NumberedFrom1(doc.images_summary.items,
                         RecordsInOrder(results, "images"), "img_")

\* C18 witness: two or more batches that returned records under the same ids
\* (b1, t1, i1, ...) have been merged, after a collection out of page order.
C18_Witness ==
    /\ pc = "done"
    /\ doc.success
    /\ ~in_page_order
    /\ Cardinality({b \in Succeeded :
                        Len(Get(future[b].value.result, "blocks", <<>>)) = MaxItems}) >= 2
    /\ Len(doc.blocks) >= 2 * MaxItems
    /\ Len(doc.tables) >= 2 * MaxItems
    /\ Len(doc.images_summary.items) >= 2 * MaxItems

\* The value of a key in the first of the results in which it is not empty,
\* and the empty string when there is none.
RECURSIVE FirstNonEmpty(_, _)
FirstNonEmpty(results, key) ==
    IF results = <<>> THEN ""
    ELSE IF Get(Head(results), key, "") # "" THEN Head(results)[key]
    ELSE FirstNonEmpty(Tail(results), key)

\* C19: the detected type of a merged result is the detected type of the first
\* successful batch, by ascending start page, that has a non-empty one, and
\* the language likewise; neither a batch with a higher start page nor the
\* order in which the batches completed changes it.
C19_FirstDetectedTypeWins ==
    (pc = "done" /\ batch_tasks # <<>> /\ doc.success) =>
        /\ doc.detected_type = FirstNonEmpty(ResultsFromPage(1), "detected_type")
        /\ doc.language = FirstNonEmpty(ResultsFromPage(1), "language")

\* C19 witness: three batches succeeded and were collected out of page order;
\* the first returned no detected type, the second and the third each one of
\* its own, and the merged result carries the second's.
C19_Witness ==
    /\ pc = "done"
    /\ doc.success
    /\ ~in_page_order
    /\ Len(ResultsFromPage(1)) = 3
    /\ Get(ResultsFromPage(1)[1], "detected_type", "") = ""
    /\ Get(ResultsFromPage(1)[2], "detected_type", "") # ""
    /\ Get(ResultsFromPage(1)[3], "detected_type", "") # ""
    /\ ResultsFromPage(1)[2].detected_type # ResultsFromPage(1)[3].detected_type
    /\ doc.detected_type = ResultsFromPage(1)[2].detected_type
    /\ doc.language = ResultsFromPage(1)[2].language

\* The non-empty summaries of the given results, in their order.
RECURSIVE NonEmptySummaries(_)
NonEmptySummaries(results) ==
    IF results = <<>> THEN <<>>
    ELSE (IF Get(Head(results), "summary", "") # "" THEN <<Head(results).summary>>
          ELSE <<>>)
         \o NonEmptySummaries(Tail(results))

\* C20: the full_text of a merged result is the join of the first min(10, m)
\* non-empty summaries of the successful batches taken by ascending start
\* page, m being the number of such summaries; no summary after the tenth is
\* part of it.
C20_SummaryCappedAtTen ==
    (pc = "done" /\ batch_tasks # <<>> /\ doc.success) =>
        LET all == NonEmptySummaries(ResultsFromPage(1))
            m == Len(all)
        IN  /\ doc.full_text = Join(SubSeq(all, 1, IF m < 10 THEN m ELSE 10))
            /\ m > 10 => doc.full_text # Join(all)

\* C20 witness: twelve batches, collected in reverse page order, of which one
\* returned no summary; eleven summaries were merged.
C20_Witness ==
    /\ pc = "done"
    /\ doc.success
    /\ ~in_page_order
    /\ Len(batch_tasks) = 12
    /\ Len(NonEmptySummaries(ResultsFromPage(1))) = 11
    /\ Get(ResultsFromPage(1)[1], "summary", "") = ""

\* The tokens of a question: its maximal runs of characters other than space.
Tokens(q) ==
    {SubSeq(q, ij[1], ij[2]) : ij \in
        {ij \in (DOMAIN q) \X (DOMAIN q) :
            /\ ij[1] <= ij[2]
            /\ \A k \in ij[1]..ij[2] : q[k] # " "
            /\ (ij[1] = 1 \/ q[ij[1] - 1] = " ")
            /\ (ij[2] = Len(q) \/ q[ij[2] + 1] = " ")}}

\* C21: the keyword set handed to search_key_values contains every token of
\* the question that has two or more characters and is not a stop word, and
\* every phrase of the curated list that occurs in the question whatever the
\* letter case; a question with such a token has a non-empty keyword set.
C21_KeywordsHoldTokensAndPhrases ==
    calls.search_key_values > 0 =>
        LET kept == {w \in Tokens(question) : Len(w) >= 2 /\ w \notin StopWords} IN
        /\ kept \subseteq AllKeywords(question)
        /\ {p \in CommonPhrases : Contains(LowerText(question), LowerText(p))}
               \subseteq AllKeywords(question)
        /\ kept # {} => AllKeywords(question) # {}

\* What the code does extract: the curated phrases that occur in the question
\* and nothing else.
C21_OnlyPhrasesAreKeywords ==
    calls.search_key_values > 0 =>
        AllKeywords(question) =
            {p \in CommonPhrases : Contains(LowerText(question), LowerText(p))}

\* The document a filename belongs to (filenames are distinct in the store).
DocOfFile(f) == CHOOSE d \in DocIds : Documents[d].filename = f

\* The position class of a context part: key facts, page section, summary.
PartRank(part) ==
    CASE part.kind = "key_values" -> 1 [] part.kind = "page" -> 2 [] OTHER -> 3

MatchPages(d) ==
    {matched_key_values[i].page :
        i \in {j \in DOMAIN matched_key_values : matched_key_values[j].document_id = d}}

\* The ids of d's blocks on the pages from lo to hi.
BlocksOnPages(d, lo, hi) ==
    {r.id : r \in {b \in BlockTable : b.document_id = d /\ lo <= b.page /\ b.page <= hi}}

\* C23: in the keyword path the supplementary blocks of a document D with
\* matches are exactly D's blocks on the pages m to M + 1, m and M the smallest
\* and the largest page of the matches that belong to D (or none, when the
\* store could not be read); a document without a match gets none.
C23_KeywordWindowPerDocument ==
    (ask_pc \in {"generate", "done"} /\ ~use_block_search) =>
        \A d \in DocIds :
            IF MatchPages(d) = {} THEN ExpandedOf(d) = {}
            ELSE ExpandedOf(d) \in
                     {{}, BlocksOnPages(d, MinOf(MatchPages(d)), MaxOf(MatchPages(d)) + 1)}

\* What the code fetches: one window for all documents with a match, from the
\* smallest to the largest matched page of any document, plus one.
C23_KeywordWindowShared ==
    (ask_pc \in {"generate", "done"} /\ ~use_block_search) =>
        LET pages == UNION {MatchPages(d) : d \in DocIds} IN
        \A d \in DocIds :
            IF MatchPages(d) = {} THEN ExpandedOf(d) = {}
            ELSE ExpandedOf(d) \in {{}, BlocksOnPages(d, MinOf(pages), MaxOf(pages) + 1)}

\* C24: an answer generated from evidence lists it all in its sources: every
\* vector hit as a source with its filename, page and similarity score, every
\* key-value match of a keyword-only answer as a source with its filename and
\* page and a null similarity; with any evidence the list is not empty.
C24_SourcesReportEvidence ==
    (ask_pc = "done" /\ response.status = 200 /\ response.answer = GeneratedAnswer) =>
        /\ (matched_key_values # <<>> \/ relevant_blocks # <<>>) => response.sources # <<>>
        /\ \A i \in DOMAIN relevant_blocks :
               \E k \in DOMAIN response.sources :
                   /\ response.sources[k].filename = relevant_blocks[i].filename
                   /\ response.sources[k].page = relevant_blocks[i].page
                   /\ response.sources[k].similarity = [v |-> relevant_blocks[i].similarity]
        /\ ~use_block_search =>
               \A i \in DOMAIN matched_key_values :
                   \E k \in DOMAIN response.sources :
                       /\ response.sources[k].filename = matched_key_values[i].filename
                       /\ response.sources[k].page = matched_key_values[i].page
                       /\ response.sources[k].similarity = NoneVal

\* What the code returns: one source per vector hit, in the order of the hits,
\* with a null similarity for a hit whose score is zero, and nothing for the
\* key-value matches.
C24_SourcesAreVectorHits ==
    (ask_pc = "done" /\ response.status = 200 /\ response.answer = GeneratedAnswer) =>
        /\ Len(response.sources) = Len(relevant_blocks)
        /\ \A i \in DOMAIN relevant_blocks :
               /\ response.sources[i].filename = relevant_blocks[i].filename
               /\ response.sources[i].page = relevant_blocks[i].page
               /\ response.sources[i].similarity =
                      (IF relevant_blocks[i].similarity = 0 THEN NoneVal
                       ELSE [v |-> relevant_blocks[i].similarity])

\* The ids of the blocks a vector search returned.
HitIds(hits) == {hits[i].id : i \in DOMAIN hits}

\* C25: in every vector search of a request that races with the backfill, the
\* blocks returned have an embedding that was committed before the search, so
\* no block whose embedding is still null, or written but not yet committed,
\* is returned; every block in scope whose embedding was committed before the
\* search is returned (or nothing, when the store could not be read); and the
\* search step ends the request with an error only when log_query raised.
C25_BackfillRace ==
    [][(ask_pc = "search" /\ ask_pc' # "search") =>
          /\ HitIds(relevant_blocks') \subseteq embedded
          /\ \/ relevant_blocks' = <<>>
             \/ HitIds(relevant_blocks') =
                    {b.id : b \in {r \in BlockTable :
                                      r.id \in embedded /\ InScope(r, document_ids)}}
          /\ response'.status = 500 =>
                 /\ relevant_blocks' = <<>>
                 /\ query_log'[1].outcome = "raised"]_vars

\* C25 witness: a backfill run started after the request had been received;
\* it wrote and committed the embeddings of two blocks and got no embedding
\* for a third; the search that followed returned the two and not the third.
C25_Witness ==
    /\ ask_pc = "done"
    /\ response.status = 200
    /\ backfill.pc = "done"
    /\ backfill.written = {1, 5}
    /\ embedded = {1, 5}
    /\ HitIds(relevant_blocks) = {1, 5}

\* C26: for every batch [s, e] the segmenter produces, a record whose returned
\* page is an integer already inside [s, e] keeps that page; the interval
\* [1, e - s + 1] of batch-relative pages meets [s, e] only for a batch that
\* starts at page 1, where the remapping v + s - 1 is the identity.
C26_AbsolutePagesKept ==
    /\ fix_pc # "idle" =>
           \/ fix_range.start_page = 1
           \/ fix_range.end_page - fix_range.start_page + 1 < fix_range.start_page
    /\ fix_pc = "fixed" =>
           \A kr \in PagedRecords(fix_raw) :
               LET pv == fix_raw[kr[1]][kr[2]].page IN
               (/\ pv.k = "int"
                /\ fix_range.start_page <= pv.v
                /\ pv.v <= fix_range.end_page)
                   => fix_result[kr[1]][kr[2]].page = pv

\* C26 witness: the last page of a later batch of three pages, returned as an
\* absolute page on a block and on a table, has been reconciled.
C26_Witness ==
    /\ fix_pc = "fixed"
    /\ fix_range.start_page > 1
    /\ fix_range.end_page = fix_range.start_page + 2
    /\ "blocks" \in DOMAIN fix_raw
    /\ "tables" \in DOMAIN fix_raw
    /\ "page" \in DOMAIN fix_raw.blocks[1]
    /\ "page" \in DOMAIN fix_raw.tables[1]
    /\ fix_raw.blocks[1].page = IntVal(fix_range.end_page)
    /\ fix_result.blocks[1].page = IntVal(fix_range.end_page)
    /\ fix_result.tables[1].page = IntVal(fix_range.end_page)

\* C27: when _process leaves the collection loop and merges, every submitted
\* task has terminated by returning (a success, or the failure of its second
\* attempt): none is queued, running or between two attempts; and every batch
\* has been counted once, the successes in successful_batches and the
\* failures in failed_batches.
C27_MergeAfterAllTasks ==
    [][(pc = "collect" /\ pc' = "done" /\ doc'.success) =>
          /\ \A b \in Batches :
                 /\ task[b].st = "finished"
                 /\ future[b].state = "returned"
                 /\ b \in collected
                 /\ future[b].value.success \/ attempts[b].fails = RetryLimit
          /\ successful_batches = Cardinality(Succeeded)
          /\ failed_batches = Cardinality(Batches \ Succeeded)
          /\ successful_batches + failed_batches = Len(batch_tasks)
          /\ Len(batch_results) = successful_batches]_vars

\* C27 witness: a merge ran after three tasks of which one had failed both
\* attempts, one had succeeded at its second attempt and one at its first.
C27_Witness ==
    /\ pc = "done"
    /\ doc.success
    /\ Len(batch_tasks) = 3
    /\ failed_batches = 1
    /\ successful_batches = 2
    /\ \E b \in Batches : attempts[b].fails = RetryLimit
    /\ \E b \in Batches : attempts[b] = [calls |-> 2, fails |-> 1]
    /\ \E b \in Batches : attempts[b] = [calls |-> 1, fails |-> 0]

\* C28: the thread that holds the log lock is writing a log line: no thread
\* holds it during its external call, none waits for it while holding it, and
\* a thread that waits for it finds it free or held by a thread whose next
\* step releases it; so the threads outside an external call can always step,
\* however long the calls of the others last.
C28_LogLockOnlyWhileLogging ==
    LET threads == lock_run.threads
        holder == lock_run.holder
    IN  /\ \A b \in DOMAIN threads :
               threads[b].at \in {"in_call", "want", "queued", "finished"} => holder # b
        /\ holder # 0 => threads[holder].at = "hold"
        /\ \A b \in DOMAIN threads : threads[b].at = "hold" => holder = b
        /\ \A b \in DOMAIN threads :
               threads[b].at = "want" =>
                   \/ ENABLED LogAcquire(b)
                   \/ holder \in DOMAIN threads /\ ENABLED LogRelease(holder)

\* C28 witness: one thread is in the external call of its retry while another
\* one holds the lock to log its completion.
C28_Witness ==
    \E b, c \in DOMAIN lock_run.threads :
        /\ lock_run.threads[b] = [at |-> "in_call", line |-> "retry", attempt |-> 1]
        /\ lock_run.threads[c] = [at |-> "hold", line |-> "done", attempt |-> 0]
        /\ lock_run.holder = c

\* The filenames of the documents a request is scoped to.
ScopedFiles == {Documents[d].filename : d \in Range(document_ids)}

\* C29: in a request scoped to a list of documents, every key-value match,
\* every vector hit, every expanded block, every page section and summary of
\* the context and every returned source belongs to a document of the list.
C29_ScopeConfinesContext ==
    document_ids # <<>> =>
        /\ \A i \in DOMAIN matched_key_values :
               matched_key_values[i].document_id \in Range(document_ids)
        /\ \A i \in DOMAIN relevant_blocks :
               relevant_blocks[i].document_id \in Range(document_ids)
        /\ \A i \in DOMAIN expanded_blocks :
               expanded_blocks[i].document_id \in Range(document_ids)
        /\ \A i \in DOMAIN context_parts :
               LET part == context_parts[i] IN
               IF part.kind = "key_values"
               THEN \A k \in DOMAIN part.facts :
                        \E kv \in KeyValueTable :
                            /\ kv.document_id \in Range(document_ids)
                            /\ part.facts[k] =
                                   [key |-> kv.key, value |-> kv.value, page |-> kv.page]
               ELSE part.filename \in ScopedFiles
        /\ (ask_pc = "done" /\ response.status = 200) =>
               \A i \in DOMAIN response.sources :
                   response.sources[i].filename \in ScopedFiles

\* C29 witness: a question whose phrase also matches a key-value pair of
\* document 1 was asked with scope document 2 while blocks of document 1 had
\* embeddings; it was answered from a match, a hit and a block of document 2.
C29_Witness ==
    /\ ask_pc = "done"
    /\ response.status = 200
    /\ document_ids = <<2>>
    /\ question = <<"xue", "li", "shi", "shen", "me">>
    /\ {1, 2, 5} \subseteq embedded
    /\ Len(matched_key_values) = 1
    /\ Len(relevant_blocks) = 1
    /\ Len(expanded_blocks) = 1
    /\ Len(response.sources) = 1
    /\ Len(context_parts) >= 2

\* ------------------------------------------------------------------ C30

\* The ingest specification with its scheduling: a step of _process or of a
\* worker thread that can be taken is eventually taken (every external call
\* returns or raises, the pool runs its queue, as_completed yields every
\* finished future).
LivePages == 5
InitLive ==
    /\ InitIngest(1..LivePages, 1..MaxWorkers)
    /\ IdleFix /\ IdleAsk /\ IdleUpload /\ IdleBackfill /\ IdleLock
SpecLive == InitLive /\ [][NextIngest]_vars /\ WF_vars(NextIngest)

\* An exception left a step that runs inside the try of _process: the single
\* call, or a task whose future.result() re-raised it.
EscapedException ==
    \/ batch_tasks = <<>> /\ pc = "done" /\ attempts[1].fails > 0
    \/ \E b \in collected : future[b].state = "raised"

\* The result _error_result builds, whatever the message.
IsErrorResult(d) ==
    d # NoDoc /\ d = ErrorResult(d.error) /\ d.error # ""

\* C30: process_bytes returns a DocumentResult, and when an exception was
\* raised during page counting, the single call, a batch task or result
\* collection, the result is the unsuccessful one: success false,
\* total_pages 0, empty blocks, the error message.
C30_ExceptionsBecomeErrorResult ==
    pc = "done" =>
        /\ doc # NoDoc
        /\ (count_raised \/ EscapedException) => IsErrorResult(doc)

\* C30, without page counting: an exception that reaches the except clause
\* of _process gives the unsuccessful result.
C30_EscapedExceptionsBecomeErrorResult ==
    pc = "done" =>
        /\ doc # NoDoc
        /\ EscapedException => IsErrorResult(doc)

\* C30, page counting: when fitz raised, _get_pdf_page_count returned 1 and
\* the document went down the single-call path as a one-page document.
C30_CountFailureIsOnePage ==
    count_raised =>
        /\ total_pages = 1
        /\ batch_tasks = <<>>
        /\ (pc = "done" /\ doc.success) => doc.total_pages = 1

\* C30, termination: every ingestion returns a DocumentResult.
C30_AlwaysReturns == <>(pc = "done" /\ doc # NoDoc)

\* A failed page count that ended in a successful result.
C30_CountFailureSucceeded ==
    pc = "done" /\ count_raised /\ doc.success /\ doc.blocks # <<>>

====
